---- MODULE Spec2Model ----
(***************************************************************************)
(* Database Statistics Dashboard (src/app.py).                             *)
(*                                                                         *)
(* Two parts of the program are modelled as state machines:                *)
(*   - get_queue_info_with_timeout, the SIGALRM-guarded queue scan, one    *)
(*     step per store command or statement group, with the alarm           *)
(*     delivered asynchronously between steps (ScanSpec, FairScanSpec);    *)
(*   - requires_auth, the access gate wrapped around the routes            *)
(*     (GateSpec).                                                         *)
(* Strings whose content the code inspects (key names, glob patterns,      *)
(* header values, tokens, addresses) are sequences of one-character        *)
(* strings, so that matching, splitting and stripping are computed.        *)
(***************************************************************************)
EXTENDS Integers, Sequences, FiniteSets, TLC

VARIABLES
    \* ---- environment of one scan
    store,              \* the key-value store the client is connected to
    in_main_thread,     \* whether the caller runs in the interpreter's main thread
    \* ---- control state of get_queue_info_with_timeout
    pc,                 \* position in the function
    alarm_armed,        \* a SIGALRM is pending for this process
    alarm_fired,        \* history: timeout_handler has run during this scan
    faults,             \* history: store commands that raised so far
    cmd_after_fire,     \* history: a store command was started after the handler ran
    \* ---- locals of get_queue_info_with_timeout
    total_messages,
    queue_details,
    cursor,
    scan_count,
    sample_keys,
    pattern_idx,
    all_queue_keys,
    key_list,
    key,
    key_type,
    length,
    total_stream_length,
    pending_count,
    stream_info,
    groups_info,
    group_name,
    lag,
    pending_summary,
    total_pending,
    effective_count,
    total_pel_messages,
    pel_problem_detected,
    oldest_pel_age_ms,
    total_undelivered_messages,
    result,
    \* ---- the access gate (requires_auth) serving one request
    config,
    request,
    gate_pc,
    checks_run,
    response,
    handler_ran,
    connections_opened,
    \* ---- one request served by a route handler
    route,              \* the route requested
    spc,                \* position in the handler and the functions it calls
    backend,            \* how the store, the database and the RTSP service behave
    args,               \* the page, limit, sort and order query parameters, as sent
    tables,             \* the rows of pg_stat_user_tables
    spaces,             \* object-store settings and the stored image path
    open_conns,         \* connections opened and not yet closed
    valkey_stats,
    postgres_stats,
    rtsp_reader_stats,
    page,
    limit,
    query_limit,        \* history: the LIMIT / OFFSET of the data query, once issued
    order_by,           \* history: the ORDER BY column and direction of that query
    observations,
    http,               \* what the handler returned, or that it raised
    \* ---- two queue scans in one process
    scans,              \* per request: position, whether its handler has run
    scans_in_main,      \* whether the scans run in the interpreter's main thread
    proc_alarm          \* the process's one SIGALRM timer

scanVars ==
    << store, in_main_thread, pc, alarm_armed, alarm_fired, faults, cmd_after_fire,
       total_messages, queue_details, cursor, scan_count, sample_keys, pattern_idx,
       all_queue_keys, key_list, key, key_type, length, total_stream_length,
       pending_count, stream_info, groups_info, group_name, lag, pending_summary,
       total_pending,       effective_count, total_pel_messages, pel_problem_detected, oldest_pel_age_ms,
       total_undelivered_messages, result >>

gateVars ==
    << config, request, gate_pc, checks_run, response, handler_ran, connections_opened >>

srvVars ==
    << route, spc, backend, args, tables, spaces, open_conns, valkey_stats,
       postgres_stats, rtsp_reader_stats, page, limit, query_limit, order_by, observations, http >>

concVars == << scans, scans_in_main, proc_alarm >>

vars == << scanVars, gateVars, srvVars, concVars >>

\* what a scan, the gate, a handler leave alone
besideScan == << gateVars, srvVars, concVars >>
besideGate == << scanVars, srvVars, concVars >>
besideServe == << scanVars, concVars >>
besideConc == << scanVars, gateVars, srvVars >>

-----------------------------------------------------------------------------
(* Bounds of the model *)

\* store commands that may raise during one scan
MaxFaults == 1
\* consumer groups a stream of the store may have
MaxGroups == 1
\* keys one SCAN call of the store hands back before returning a cursor
ScanPage == 2
\* the number of keys in the crowded store
CrowdSize == 52

(* Program constants *)

\* list(all_queue_keys)[:50]
InspectLimit == 50
\* queue_details[:10]
TopN == 10
\* age_seconds > 30
PelAgeThresholdSeconds == 30
\* sample_keys.extend(keys[:10])
SampleSlice == 10
\* len(sample_keys) >= 30
SampleLimit == 30
\* scan_count > 5
SampleScans == 5
\* len(pending_summary) >= 4
SummaryFields == 4

-----------------------------------------------------------------------------
(* Helpers.  An optional value (None, an unbound local, a missing argument) *)
(* is the empty sequence; a present value x is << x >> where the two must  *)
(* be told apart.                                                          *)

None == << >>

Min(a, b) == IF a < b THEN a ELSE b
Max(a, b) == IF a > b THEN a ELSE b

RECURSIVE SumSeq(_)
SumSeq(s) == IF s = << >> THEN 0 ELSE Head(s) + SumSeq(Tail(s))

\* s[:n] of a Python list
Take(s, n) == SubSeq(s, 1, Min(n, Len(s)))

Range(s) == { s[i] : i \in 1..Len(s) }

\* every order in which iterating a Python set may yield its elements
RECURSIVE Orderings(_)
Orderings(S) ==
    IF S = {} THEN { << >> }
    ELSE UNION { { << x >> \o t : t \in Orderings(S \ {x}) } : x \in S }

Reverse(s) == [i \in 1..Len(s) |-> s[Len(s) + 1 - i]]

-----------------------------------------------------------------------------
(* The key patterns scanned for, src/app.py:260-287 *)

queue_patterns ==
    << <<"q","u","e","u","e",":","*">>,
       <<"*",":","q","u","e","u","e">>,
       <<"j","o","b",":","*">>,
       <<"t","a","s","k",":","*">>,
       <<"w","o","r","k",":","*">>,
       <<"p","e","n","d","i","n","g",":","*">>,
       <<"p","r","o","c","e","s","s","i","n","g",":","*">>,
       <<"c","e","l","e","r","y">>,
       <<"r","q",":","*">>,
       <<"b","u","l","l",":","*">>,
       <<"k","u","e",":","*">>,
       <<"s","n","a","p","s","h","o","t","s">>,
       <<"s","n","a","p","s","h","o","t",":","*">>,
       <<"f","r","a","m","e","s">>,
       <<"f","r","a","m","e",":","*">>,
       <<"i","m","a","g","e","s">>,
       <<"i","m","a","g","e",":","*">>,
       <<"m","e","s","s","a","g","e","s">>,
       <<"m","e","s","s","a","g","e",":","*">>,
       <<"d","a","t","a">>,
       <<"d","a","t","a",":","*">>,
       <<"b","u","f","f","e","r">>,
       <<"b","u","f","f","e","r",":","*">>,
       <<"*","_","q","u","e","u","e">>,
       <<"*","_","j","o","b","s">>,
       <<"*","_","t","a","s","k","s">> >>

\* glob matching of SCAN ... MATCH pattern: "*" matches any run of characters,
\* every other character of these patterns matches itself
RECURSIVE GlobMatch(_, _)
GlobMatch(p, s) ==
    IF p = << >> THEN s = << >>
    ELSE IF Head(p) = "*"
         THEN GlobMatch(Tail(p), s) \/ (s # << >> /\ GlobMatch(p, Tail(s)))
         ELSE s # << >> /\ Head(s) = Head(p) /\ GlobMatch(Tail(p), Tail(s))

-----------------------------------------------------------------------------
(* The store behind `client`: what its commands answer.                    *)
(* A value is [type, len, groups]; a consumer group is [name, lag, pel]    *)
(* where lag is << n >>, or << >> when the server reports it as null, or   *)
(* the field is missing (servers older than 7.0), and pel is the ages in   *)
(* milliseconds of its pending entries, in XPENDING order.                 *)

K_jobs   == <<"q","u","e","u","e",":","j","o","b","s">>
K_events == <<"e","v","e","n","t","s">>
K_frames == <<"f","r","a","m","e","s">>
K_jq     == <<"j","o","b",":","q","u","e","u","e">>

KeyOrder == << K_jobs, K_events, K_frames, K_jq >>
KeyNames == Range(KeyOrder)

Absent == [type |-> "none", len |-> 0, groups |-> << >>]
Plain(t, n) == [type |-> t, len |-> n, groups |-> << >>]
Stream(n, gs) == [type |-> "stream", len |-> n, groups |-> gs]

GroupKinds ==
    << [name |-> "workers", lag |-> << 2 >>, pel |-> << 5000 >>],
       [name |-> "slow",    lag |-> << 0 >>, pel |-> << 30001 >>],
       [name |-> "edge",    lag |-> << 1 >>, pel |-> << 30000 >>],
       [name |-> "nil",     lag |-> << >>,   pel |-> << >>],
       [name |-> "old",     pel |-> << 5000, 40000 >>] >>

\* the group lists a stream of the store may have: runs of GroupKinds
GroupLists ==
    { SubSeq(GroupKinds, w[1], w[1] + w[2] - 1) :
        w \in { v \in (1..Len(GroupKinds)) \X (0..MaxGroups) :
                    v[1] + v[2] - 1 <= Len(GroupKinds) } }

EventsStream == Stream(3, << GroupKinds[1] >>)

ValuesOf(k) ==
    IF k = K_jobs THEN { Absent, Plain("list", 0), Plain("list", 7), Plain("string", 0) }
    ELSE IF k = K_jq THEN { Absent, Plain("zset", 2), Plain("set", 7) }
    ELSE IF k = K_events THEN { Absent, EventsStream }
    ELSE { Absent } \cup { Stream(n, gs) : n \in {0, 3}, gs \in GroupLists }

\* the keys task:1 .. task:CrowdSize of the crowded store
CrowdKey(i) == << "t", "a", "s", "k", ":", ToString(i) >>
CrowdOrder == [i \in 1..CrowdSize |-> CrowdKey(i)]
CrowdNames == Range(CrowdOrder)

\* every fourth of them is a non-empty list, the others are plain strings
CrowdValue(i) == IF i % 4 = 0 THEN Plain("list", ((i \div 4) % 3) + 1) ELSE Plain("string", 0)

\* 0: every SCAN iteration completes; i: SCAN MATCH queue_patterns[i] never
\* returns cursor 0
StuckChoices == {0, 1}

\* the stores a scan is run against: at most two of the keys exist at once
Stores ==
    { [vals |-> v, stuck |-> s] :
        v \in { f \in [KeyNames -> UNION { ValuesOf(k) : k \in KeyNames }] :
                    /\ \A k \in KeyNames : f[k] \in ValuesOf(k)
                    /\ Cardinality({ k \in KeyNames : f[k] # Absent }) <= 2 },
        s \in StuckChoices }

\* a store with more matching keys than one scan inspects; its SCAN returns
\* the whole key space in one reply (COUNT is a hint)
CrowdStore ==
    [vals  |-> [k \in KeyNames \cup CrowdNames |->
                  IF k \in KeyNames THEN Absent
                  ELSE CrowdValue(CHOOSE i \in 1..CrowdSize : CrowdKey(i) = k)],
     stuck |-> 0,
     page  |-> CrowdSize]

Clients == Stores \cup { CrowdStore }

\* the number of keys one SCAN reply of the store carries
PageOf(st) == IF "page" \in DOMAIN st THEN st.page ELSE ScanPage

\* the keys present, in the order the server's table holds them
Present(st, ks) == SelectSeq(ks, LAMBDA k : st.vals[k].type # "none")

KeySpace(st) ==
    Present(st, IF DOMAIN st.vals = KeyNames THEN KeyOrder ELSE KeyOrder \o CrowdOrder)

\* the keys of ks that SCAN returns under MATCH match, or without MATCH
Matching(ks, match) == SelectSeq(ks, LAMBDA k : match = None \/ GlobMatch(match, k))

\* SCAN cursor [MATCH match]: the next cursor and the keys of this page
StoreScan(st, cur, match) ==
    LET ks == KeySpace(st)
        n  == Len(ks)
    IN  IF match # None /\ st.stuck # 0 /\ match = queue_patterns[st.stuck]
        THEN [cursor |-> IF cur = 1 THEN 2 ELSE 1, keys |-> Matching(ks, match)]
        ELSE LET to == Min(cur + PageOf(st), n)
             IN  [cursor |-> IF to >= n THEN 0 ELSE to,
                  keys   |-> Matching(SubSeq(ks, cur + 1, to), match)]

\* TYPE key
StoreType(st, k) == IF k \in DOMAIN st.vals THEN st.vals[k].type ELSE "none"
\* LLEN / ZCARD / SCARD / XLEN key
StoreLen(st, k) == st.vals[k].len
\* XINFO GROUPS key
StoreGroups(st, k) == st.vals[k].groups
GroupOf(st, k, g) ==
    LET gs == st.vals[k].groups
    IN  gs[CHOOSE i \in 1..Len(gs) : gs[i].name = g]
\* XPENDING key group: [count, min id, max id, consumers]
StoreXPending(st, k, g) == << Len(GroupOf(st, k, g).pel), "-", "+", << >> >>
\* XPENDING key group - + 100: entries [message id, age in ms]
StoreXPendingRange(st, k, g) ==
    LET pel == GroupOf(st, k, g).pel
    IN  [ i \in 1..Len(pel) |-> << i, pel[i] >> ]

-----------------------------------------------------------------------------
(* get_queue_info_with_timeout, src/app.py:244-609 *)

env    == << store, in_main_thread >>
acc    == << total_messages, queue_details >>
scanLoc == << cursor, scan_count, sample_keys, pattern_idx, all_queue_keys >>
keyLoc == << key_list, key, key_type, length >>
strLoc == << total_stream_length, pending_count, stream_info, groups_info, group_name,
             lag, pending_summary, total_pending, effective_count >>
post   == << total_pel_messages, pel_problem_detected, oldest_pel_age_ms,
             total_undelivered_messages, result >>
locals == << acc, scanLoc, keyLoc, strLoc, post >>

NoInfo == [total_length |-> 0, pending_count |-> 0, consumer_groups |-> << >>,
           pel_details |-> << >>, available_unread |-> 0]
NoResult == [returned |-> FALSE]

IntValue(n) == [tag |-> "int", n |-> n, s |-> ""]
StrValue(t) == [tag |-> "str", n |-> 0, s |-> t]

InitScan ==
    /\ store \in Clients
    /\ in_main_thread \in BOOLEAN
    /\ pc = "start"
    /\ alarm_armed = FALSE
    /\ alarm_fired = FALSE
    /\ faults = 0
    /\ cmd_after_fire = FALSE
    /\ total_messages = 0
    /\ queue_details = << >>
    /\ cursor = 0
    /\ scan_count = 0
    /\ sample_keys = << >>
    /\ pattern_idx = 0
    /\ all_queue_keys = {}
    /\ key_list = << >>
    /\ key = << >>
    /\ key_type = ""
    /\ length = 0
    /\ total_stream_length = 0
    /\ pending_count = 0
    /\ stream_info = NoInfo
    /\ groups_info = << >>
    /\ group_name = ""
    /\ lag = << 0 >>
    /\ pending_summary = << >>
    /\ total_pending = 0
    /\ effective_count = 0
    /\ total_pel_messages = 0
    /\ pel_problem_detected = FALSE
    /\ oldest_pel_age_ms = 0
    /\ total_undelivered_messages = None
    /\ result = NoResult

(* Which handler catches an exception raised at a position.  The inner     *)
(* handlers are `except Exception`, and TimeoutError is an Exception.      *)
InSample  == {"sample_scan"}                                    \* try 293 / except 305
InPattern == {"scan_pattern"}                                   \* try 311 / except 322
InPel     == {"xpending", "xpending_range"}                     \* try 395 / except 424
InGroups  == {"xinfo_groups", "for_group", "add_unread"}        \* try 381 / except 432
InKey     == {"type", "length_cmd", "add_total", "append_detail", "xlen", "effective",
              "stream_add_total", "stream_append"}              \* try 332 / except 462
InOuter   == {"init_locals", "line309", "for_pattern", "line326", "for_key",
              "cancel_alarm", "sort", "pel_stats", "estimate", "log_scan"}  \* try 252
InExcept  == {"except_timeout", "except_error"}                 \* 572-603
InFinally == {"finally", "finally_raise"}                       \* try 606 / except 608

\* except Exception at 432-437
Caught432 ==
    /\ pc' = "effective"
    /\ pending_count' = total_stream_length
    /\ stream_info' = [stream_info EXCEPT !.pending_count = total_stream_length,
                                          !.available_unread = total_stream_length]
    /\ UNCHANGED << acc, scanLoc, keyLoc, post, total_stream_length, groups_info,
                    group_name, lag, pending_summary, total_pending, effective_count >>

\* mutant of Raise: an exception inside the per-key try aborts the scan
Raise_KeyAborts(exc) ==
    IF pc \in InSample THEN pc' = "line309" /\ UNCHANGED locals
    ELSE IF pc \in InPattern THEN pc' = "for_pattern" /\ UNCHANGED locals
    ELSE IF pc \in InPel THEN pc' = "add_unread" /\ UNCHANGED locals
    ELSE IF pc \in InGroups THEN Caught432
    ELSE IF pc \in InKey \cup InOuter \/ pc = "start"
         THEN /\ pc' = IF exc = "TimeoutError" THEN "except_timeout" ELSE "except_error"
              /\ UNCHANGED locals
    ELSE IF pc \in InExcept THEN pc' = "finally_raise" /\ UNCHANGED locals
    ELSE /\ pc' = IF pc = "finally" THEN "done" ELSE "raised"
         /\ UNCHANGED locals

\* where control goes when exception `exc` is raised at the current position
Raise(exc) ==
    IF pc \in InSample THEN pc' = "line309" /\ UNCHANGED locals
    ELSE IF pc \in InPattern THEN pc' = "for_pattern" /\ UNCHANGED locals
    ELSE IF pc \in InPel THEN pc' = "add_unread" /\ UNCHANGED locals
    ELSE IF pc \in InGroups THEN Caught432
    ELSE IF pc \in InKey THEN pc' = "for_key" /\ UNCHANGED locals
    ELSE IF pc \in InOuter \/ pc = "start"
         THEN /\ pc' = IF exc = "TimeoutError" THEN "except_timeout" ELSE "except_error"
              /\ UNCHANGED locals
    ELSE IF pc \in InExcept THEN pc' = "finally_raise" /\ UNCHANGED locals
    ELSE /\ pc' = IF pc = "finally" THEN "done" ELSE "raised"   \* except: pass, 608-609
         /\ UNCHANGED locals

\* a store command is started
Issue == cmd_after_fire' = (cmd_after_fire \/ alarm_fired)

\* the command at this position raises (connection error, wrong type, ...)
CommandFaults ==
    /\ faults < MaxFaults
    /\ faults' = faults + 1
    /\ Issue
    /\ Raise("RedisError")
    /\ UNCHANGED << env, alarm_armed, alarm_fired >>

Ok == UNCHANGED << env, alarm_armed, alarm_fired, faults >>

\* timeout_handler, 249-250: SIGALRM is delivered at the current position
Fire ==
    /\ alarm_armed
    /\ pc \notin {"start", "done", "raised"}
    /\ alarm_armed' = FALSE
    /\ alarm_fired' = TRUE
    /\ Raise("TimeoutError")
    /\ UNCHANGED << env, faults, cmd_after_fire >>

\* 252-255
Start ==
    /\ pc = "start"
    /\ IF in_main_thread
       THEN alarm_armed' = TRUE /\ pc' = "init_locals" /\ UNCHANGED locals
       ELSE alarm_armed' = alarm_armed /\ Raise("ValueError")
    /\ UNCHANGED << env, alarm_fired, faults, cmd_after_fire >>

\* 257-296
InitLocals ==
    /\ pc = "init_locals"
    /\ total_messages' = 0
    /\ queue_details' = << >>
    /\ cursor' = 0
    /\ sample_keys' = << >>
    /\ scan_count' = 0
    /\ pc' = "sample_scan"
    /\ Ok /\ UNCHANGED << cmd_after_fire, pattern_idx, all_queue_keys, keyLoc, strLoc, post >>

\* 297-302
SampleScan ==
    /\ pc = "sample_scan"
    /\ \/ LET r == StoreScan(store, cursor, None)
              sk == sample_keys \o Take(r.keys, SampleSlice)
          IN  /\ cursor' = r.cursor
              /\ sample_keys' = sk
              /\ scan_count' = scan_count + 1
              /\ pc' = IF Len(sk) >= SampleLimit \/ scan_count + 1 > SampleScans
                       THEN "line309"
                       ELSE IF r.cursor # 0 THEN "sample_scan" ELSE "line309"
              /\ Issue /\ Ok
              /\ UNCHANGED << acc, pattern_idx, all_queue_keys, keyLoc, strLoc, post >>
       \/ CommandFaults

\* 309
Line309 ==
    /\ pc = "line309"
    /\ all_queue_keys' = {}
    /\ pattern_idx' = 0
    /\ pc' = "for_pattern"
    /\ Ok /\ UNCHANGED << cmd_after_fire, acc, cursor, scan_count, sample_keys,
                          keyLoc, strLoc, post >>

\* 310, 313
ForPattern ==
    /\ pc = "for_pattern"
    /\ IF pattern_idx < Len(queue_patterns)
       THEN pattern_idx' = pattern_idx + 1 /\ cursor' = 0 /\ pc' = "scan_pattern"
       ELSE pc' = "line326" /\ UNCHANGED << pattern_idx, cursor >>
    /\ Ok /\ UNCHANGED << cmd_after_fire, acc, scan_count, sample_keys, all_queue_keys,
                          keyLoc, strLoc, post >>

\* 314-321; time.time() % 1 == 0 holds or not
ScanPattern ==
    /\ pc = "scan_pattern"
    /\ \/ LET r == StoreScan(store, cursor, queue_patterns[pattern_idx])
          IN  /\ cursor' = r.cursor
              /\ all_queue_keys' = all_queue_keys \cup Range(r.keys)
              /\ IF r.cursor = 0
                 THEN pc' = "for_pattern" /\ alarm_armed' = alarm_armed
                 ELSE pc' = "scan_pattern" /\ alarm_armed' \in {alarm_armed, TRUE}
              /\ Issue
              /\ UNCHANGED << env, alarm_fired, faults, acc, scan_count, sample_keys,
                              pattern_idx, keyLoc, strLoc, post >>
       \/ CommandFaults

\* list(S) of a Python set of keys: any order for the small key space; for
\* sets holding keys of the crowded store, where the orders are too many to
\* enumerate, the order of the names and its reverse
ListOrders(S) ==
    IF S \subseteq KeyNames THEN Orderings(S)
    ELSE LET up == SelectSeq(KeyOrder \o CrowdOrder, LAMBDA k : k \in S)
         IN  { up, Reverse(up) }

\* mutant of Line326: every candidate is inspected
Line326_NoCap ==
    /\ pc = "line326"
    /\ key_list' \in ListOrders(all_queue_keys)
    /\ pc' = "for_key"
    /\ Ok /\ UNCHANGED << cmd_after_fire, acc, scanLoc, key, key_type, length, strLoc, post >>

\* mutant of Line326: the candidates kept in a list, each gathered twice
Line326_Repeats ==
    /\ pc = "line326"
    /\ key_list' \in { Take(o \o o, InspectLimit) : o \in ListOrders(all_queue_keys) }
    /\ pc' = "for_key"
    /\ Ok /\ UNCHANGED << cmd_after_fire, acc, scanLoc, key, key_type, length, strLoc, post >>

\* 326-331: list(all_queue_keys)[:50]
Line326 ==
    /\ pc = "line326"
    /\ key_list' \in { Take(o, InspectLimit) : o \in ListOrders(all_queue_keys) }
    /\ pc' = "for_key"
    /\ Ok /\ UNCHANGED << cmd_after_fire, acc, scanLoc, key, key_type, length, strLoc, post >>

\* 331: the next key, or the end of the loop.  The locals of the previous
\* iteration are dead here (each is assigned before it is read again).
ForKey ==
    /\ pc = "for_key"
    /\ IF key_list # << >>
       THEN key' = Head(key_list) /\ key_list' = Tail(key_list) /\ pc' = "type"
       ELSE key' = << >> /\ key_list' = key_list /\ pc' = "cancel_alarm"
    /\ key_type' = ""
    /\ length' = 0
    /\ total_stream_length' = 0
    /\ pending_count' = 0
    /\ stream_info' = NoInfo
    /\ groups_info' = << >>
    /\ group_name' = ""
    /\ lag' = << 0 >>
    /\ pending_summary' = << >>
    /\ total_pending' = 0
    /\ effective_count' = 0
    /\ Ok /\ UNCHANGED << cmd_after_fire, acc, scanLoc, post >>

\* 333-336, 346, 357, 368, 460
Type ==
    /\ pc = "type"
    /\ \/ LET t == StoreType(store, key)
          IN  /\ key_type' = t
              /\ pc' = IF t \in {"list", "zset", "set"} THEN "length_cmd"
                       ELSE IF t = "stream" THEN "xlen"
                       ELSE "for_key"
              /\ Issue /\ Ok
              /\ UNCHANGED << acc, scanLoc, key_list, key, length, strLoc, post >>
       \/ CommandFaults

\* 337-339, 348-350, 359-361: client.llen / zcard / scard
LengthCmd ==
    /\ pc = "length_cmd"
    /\ \/ LET n == StoreLen(store, key)
          IN  /\ length' = n
              /\ pc' = IF n > 0 THEN "add_total" ELSE "for_key"
              /\ Issue /\ Ok
              /\ UNCHANGED << acc, scanLoc, key_list, key, key_type, strLoc, post >>
       \/ CommandFaults

\* 340, 351, 362
AddTotal ==
    /\ pc = "add_total"
    /\ total_messages' = total_messages + length
    /\ pc' = "append_detail"
    /\ Ok /\ UNCHANGED << cmd_after_fire, queue_details, scanLoc, keyLoc, strLoc, post >>

TypeLabel(t) == IF t = "zset" THEN "sorted_set" ELSE t

\* 341-345, 352-356, 363-367
AppendDetail ==
    /\ pc = "append_detail"
    /\ queue_details' = Append(queue_details,
            [name |-> key, length |-> length, type |-> TypeLabel(key_type)])
    /\ pc' = "for_key"
    /\ Ok /\ UNCHANGED << cmd_after_fire, total_messages, scanLoc, keyLoc, strLoc, post >>

\* 371-379
XLen ==
    /\ pc = "xlen"
    /\ \/ LET n == StoreLen(store, key)
          IN  /\ pending_count' = 0
              /\ total_stream_length' = n
              /\ stream_info' = [total_length |-> n, pending_count |-> 0,
                                 consumer_groups |-> << >>, pel_details |-> << >>,
                                 available_unread |-> 0]
              /\ pc' = "xinfo_groups"
              /\ Issue /\ Ok
              /\ UNCHANGED << acc, scanLoc, keyLoc, post, groups_info, group_name, lag,
                              pending_summary, total_pending, effective_count >>
       \/ CommandFaults

\* 383-384
XInfoGroups ==
    /\ pc = "xinfo_groups"
    /\ \/ /\ groups_info' = StoreGroups(store, key)
          /\ pc' = "for_group"
          /\ Issue /\ Ok
          /\ UNCHANGED << acc, scanLoc, keyLoc, post, total_stream_length, pending_count,
                          stream_info, group_name, lag, pending_summary, total_pending,
                          effective_count >>
       \/ CommandFaults

\* 386-392, and 430 when the groups are exhausted
ForGroup ==
    /\ pc = "for_group"
    /\ IF groups_info # << >>
       THEN LET group_info == Head(groups_info)
                l == IF "lag" \in DOMAIN group_info THEN group_info.lag ELSE << 0 >>
            IN  /\ group_name' = group_info.name
                /\ lag' = l
                /\ stream_info' = [stream_info EXCEPT !.consumer_groups =
                        Append(@, [name |-> group_info.name, lag |-> l])]
                /\ groups_info' = Tail(groups_info)
                /\ pc' = "xpending"
       ELSE /\ stream_info' = [stream_info EXCEPT !.pending_count = pending_count]
            /\ pc' = "effective"
            /\ UNCHANGED << group_name, lag, groups_info >>
    /\ Ok /\ UNCHANGED << cmd_after_fire, acc, scanLoc, keyLoc, post, total_stream_length,
                          pending_count, pending_summary, total_pending, effective_count >>

\* 397-400, 421-422
XPending ==
    /\ pc = "xpending"
    /\ \/ LET summary == StoreXPending(store, key, group_name)
          IN  /\ pending_summary' = summary
              /\ IF summary # << >> /\ Len(summary) >= SummaryFields
                 THEN /\ total_pending' = summary[1]
                      /\ pending_count' = pending_count + summary[1]
                      /\ pc' = "xpending_range"
                 ELSE /\ pc' = "add_unread"
                      /\ UNCHANGED << total_pending, pending_count >>
              /\ Issue /\ Ok
              /\ UNCHANGED << acc, scanLoc, keyLoc, post, total_stream_length, stream_info,
                              groups_info, group_name, lag, effective_count >>
       \/ CommandFaults

\* age_ms / 1000 is kept as the number of milliseconds it was computed from
PelDetail(g, pending, summary, pending_info) ==
    LET base == [group_name |-> g, total_pending |-> pending,
                 oldest_age_ms |-> IF Len(summary) > 2 THEN << summary[3] >> ELSE << 0 >>,
                 sample_messages |-> Len(pending_info)]
    IN  IF pending_info # << >>
        THEN [f \in DOMAIN base \cup {"oldest_message_age_ms"} |->
                IF f = "oldest_message_age_ms" THEN pending_info[1][2] ELSE base[f]]
        ELSE base

\* 403-420
XPendingRange ==
    /\ pc = "xpending_range"
    /\ \/ LET pending_info == StoreXPendingRange(store, key, group_name)
          IN  /\ stream_info' = [stream_info EXCEPT !.pel_details =
                    Append(@, PelDetail(group_name, total_pending, pending_summary,
                                        pending_info))]
              /\ pc' = "add_unread"
              /\ Issue /\ Ok
              /\ UNCHANGED << acc, scanLoc, keyLoc, post, total_stream_length, pending_count,
                              groups_info, group_name, lag, pending_summary, total_pending,
                              effective_count >>
       \/ CommandFaults

\* 428: `+= lag` raises TypeError when lag is None
AddUnread ==
    /\ pc = "add_unread"
    /\ IF lag = None
       THEN Raise("TypeError")
       ELSE /\ stream_info' = [stream_info EXCEPT !.available_unread = @ + lag[1]]
            /\ pc' = "for_group"
            /\ UNCHANGED << acc, scanLoc, keyLoc, post, total_stream_length, pending_count,
                            groups_info, group_name, lag, pending_summary, total_pending,
                            effective_count >>
    /\ Ok /\ UNCHANGED cmd_after_fire

EffectiveCount(info, pending, total_length) ==
    IF Len(info.consumer_groups) > 0
    THEN pending + info.available_unread
    ELSE total_length

\* 442-452
Effective ==
    /\ pc = "effective"
    /\ LET e == EffectiveCount(stream_info, pending_count, total_stream_length)
       IN  /\ effective_count' = e
           /\ pc' = IF total_stream_length > 0 \/ e > 0 THEN "stream_add_total" ELSE "for_key"
    /\ Ok /\ UNCHANGED << cmd_after_fire, acc, scanLoc, keyLoc, post, total_stream_length,
                          pending_count, stream_info, groups_info, group_name, lag,
                          pending_summary, total_pending >>

\* 453
StreamAddTotal ==
    /\ pc = "stream_add_total"
    /\ total_messages' = total_messages + effective_count
    /\ pc' = "stream_append"
    /\ Ok /\ UNCHANGED << cmd_after_fire, queue_details, scanLoc, keyLoc, strLoc, post >>

\* 454-459
StreamAppend ==
    /\ pc = "stream_append"
    /\ queue_details' = Append(queue_details,
            [name |-> key, length |-> effective_count, type |-> "stream",
             stream_info |-> stream_info])
    /\ pc' = "for_key"
    /\ Ok /\ UNCHANGED << cmd_after_fire, total_messages, scanLoc, keyLoc, strLoc, post >>

\* mutant of CancelAlarm: the alarm is left armed after the key loop
CancelAlarm_Skipped ==
    /\ pc = "cancel_alarm"
    /\ pc' = "sort"
    /\ UNCHANGED << env, alarm_armed, alarm_fired, faults, cmd_after_fire, locals >>

\* 467
CancelAlarm ==
    /\ pc = "cancel_alarm"
    /\ alarm_armed' = FALSE
    /\ pc' = "sort"
    /\ UNCHANGED << env, alarm_fired, faults, cmd_after_fire, locals >>

\* list.sort(key=length, reverse=True): stable, equal lengths keep their order
RECURSIVE InsertDesc(_, _)
InsertDesc(s, x) ==
    IF s = << >> THEN << x >>
    ELSE IF Head(s).length >= x.length THEN << Head(s) >> \o InsertDesc(Tail(s), x)
         ELSE << x >> \o s

RECURSIVE SortInto(_, _)
SortInto(sorted, s) ==
    IF s = << >> THEN sorted ELSE SortInto(InsertDesc(sorted, Head(s)), Tail(s))

SortDesc(s) == SortInto(<< >>, s)

\* 470
Sort ==
    /\ pc = "sort"
    /\ queue_details' = SortDesc(queue_details)
    /\ pc' = "pel_stats"
    /\ Ok /\ UNCHANGED << cmd_after_fire, total_messages, scanLoc, keyLoc, strLoc, post >>

\* the pel_detail records the loop of 479-493 visits, in order
RECURSIVE PelDetails(_)
PelDetails(qd) ==
    IF qd = << >> THEN << >>
    ELSE LET queue == Head(qd)
         IN  (IF queue.type = "stream" /\ "stream_info" \in DOMAIN queue
              THEN queue.stream_info.pel_details ELSE << >>) \o PelDetails(Tail(qd))

\* pel_detail.get('oldest_message_age_seconds', 0), times 1000
AgeMs(pel_detail) ==
    IF "oldest_message_age_ms" \in DOMAIN pel_detail
    THEN pel_detail.oldest_message_age_ms ELSE 0

\* mutant of PelProblem: the threshold taken inclusively
PelProblem_Inclusive(pel_detail) ==
    pel_detail.total_pending > 0 /\ AgeMs(pel_detail) >= PelAgeThresholdSeconds * 1000

\* 491: pel_count > 0 and age_seconds > 30
PelProblem(pel_detail) ==
    pel_detail.total_pending > 0 /\ AgeMs(pel_detail) > PelAgeThresholdSeconds * 1000

RECURSIVE MaxAge(_)
MaxAge(ds) == IF ds = << >> THEN 0 ELSE Max(AgeMs(Head(ds)), MaxAge(Tail(ds)))

\* 473-493
PelStats ==
    /\ pc = "pel_stats"
    /\ LET ds == PelDetails(queue_details)
       IN  /\ total_pel_messages' = SumSeq([i \in 1..Len(ds) |-> ds[i].total_pending])
           /\ pel_problem_detected' = (\E i \in 1..Len(ds) : PelProblem(ds[i]))
           /\ oldest_pel_age_ms' = MaxAge(ds)
    /\ pc' = "estimate"
    /\ Ok /\ UNCHANGED << cmd_after_fire, acc, scanLoc, keyLoc, strLoc,
                          total_undelivered_messages, result >>

\* 496-522: client.info() is asked only when there are messages
Estimate ==
    /\ pc = "estimate"
    /\ \/ /\ pc' = "log_scan"
          /\ IF total_messages > 0 THEN Issue ELSE UNCHANGED cmd_after_fire
          /\ Ok /\ UNCHANGED locals
       \/ total_messages > 0 /\ CommandFaults

RECURSIVE Undelivered(_)
Undelivered(qd) ==
    IF qd = << >> THEN 0
    ELSE LET queue == Head(qd)
         IN  (IF queue.type = "stream" /\ "stream_info" \in DOMAIN queue
              THEN queue.stream_info.available_unread ELSE 0) + Undelivered(Tail(qd))

SuccessResult(total, pel, problem, details) ==
    [returned |-> TRUE,
     total_messages_in_queues |-> IntValue(total),
     pel_messages |-> pel,
     pel_problem_indicator |-> IF problem THEN "DETECTED" ELSE "OK",
     queue_details |-> Take(details, TopN)]

TimeoutResult ==
    [returned |-> TRUE,
     total_messages_in_queues |-> StrValue("Timeout"),
     queue_details |-> << >>,
     estimated_processing_time |-> "N/A"]

ErrorResult ==
    [returned |-> TRUE,
     total_messages_in_queues |-> StrValue("Error"),
     queue_details |-> << >>,
     estimated_processing_time |-> "N/A"]

\* 524-570: the log line at 524 reads total_undelivered_messages, which is
\* assigned at 531 only; 531-570 run when the read succeeds
LogScan ==
    /\ pc = "log_scan"
    /\ IF total_undelivered_messages = None
       THEN Raise("UnboundLocalError")
       ELSE /\ total_undelivered_messages' = << Undelivered(queue_details) >>
            /\ result' = SuccessResult(total_messages, total_pel_messages,
                                       pel_problem_detected, queue_details)
            /\ pc' = "finally"
            /\ UNCHANGED << acc, scanLoc, keyLoc, strLoc, total_pel_messages,
                            pel_problem_detected, oldest_pel_age_ms >>
    /\ Ok /\ UNCHANGED cmd_after_fire

\* 572-587
ExceptTimeout ==
    /\ pc = "except_timeout"
    /\ result' = TimeoutResult
    /\ pc' = "finally"
    /\ Ok /\ UNCHANGED << cmd_after_fire, acc, scanLoc, keyLoc, strLoc, total_pel_messages,
                          pel_problem_detected, oldest_pel_age_ms,
                          total_undelivered_messages >>

\* 588-603
ExceptError ==
    /\ pc = "except_error"
    /\ result' = ErrorResult
    /\ pc' = "finally"
    /\ Ok /\ UNCHANGED << cmd_after_fire, acc, scanLoc, keyLoc, strLoc, total_pel_messages,
                          pel_problem_detected, oldest_pel_age_ms,
                          total_undelivered_messages >>

\* mutant of Finally: signal.alarm(timeout_seconds) in place of signal.alarm(0)
Finally_Rearms ==
    /\ pc \in InFinally
    /\ alarm_armed' = TRUE
    /\ pc' = IF pc = "finally" THEN "done" ELSE "raised"
    /\ UNCHANGED << env, alarm_fired, faults, cmd_after_fire, locals >>

\* 604-609
Finally ==
    /\ pc \in InFinally
    /\ alarm_armed' = FALSE
    /\ pc' = IF pc = "finally" THEN "done" ELSE "raised"
    /\ UNCHANGED << env, alarm_fired, faults, cmd_after_fire, locals >>

GateIdle ==
    /\ config = << >>
    /\ request = << >>
    /\ gate_pc = "idle"
    /\ checks_run = << >>
    /\ response = 0
    /\ handler_ran = FALSE
    /\ connections_opened = 0

ServeIdle ==
    /\ route = ""
    /\ spc = "idle"
    /\ backend = << >>
    /\ args = << >>
    /\ tables = << >>
    /\ spaces = << >>
    /\ open_conns = {}
    /\ valkey_stats = << >>
    /\ postgres_stats = << >>
    /\ rtsp_reader_stats = << >>
    /\ page = 0
    /\ limit = 0
    /\ query_limit = << >>
    /\ order_by = << >>
    /\ observations = << >>
    /\ http = << >>

ConcIdle ==
    /\ scans = << >>
    /\ scans_in_main = TRUE
    /\ proc_alarm = << >>

ScanInit == InitScan /\ GateIdle /\ ServeIdle /\ ConcIdle

\* the statements of the function, in program order
ScanStep ==
    \/ Start
    \/ InitLocals
    \/ SampleScan
    \/ Line309
    \/ ForPattern
    \/ ScanPattern
    \/ Line326
    \/ ForKey
    \/ Type
    \/ LengthCmd
    \/ AddTotal
    \/ AppendDetail
    \/ XLen
    \/ XInfoGroups
    \/ ForGroup
    \/ XPending
    \/ XPendingRange
    \/ AddUnread
    \/ Effective
    \/ StreamAddTotal
    \/ StreamAppend
    \/ CancelAlarm
    \/ Sort
    \/ PelStats
    \/ Estimate
    \/ LogScan
    \/ ExceptTimeout
    \/ ExceptError
    \/ Finally

ScanNext ==
    \/ Start /\ UNCHANGED besideScan
    \/ InitLocals /\ UNCHANGED besideScan
    \/ SampleScan /\ UNCHANGED besideScan
    \/ Line309 /\ UNCHANGED besideScan
    \/ ForPattern /\ UNCHANGED besideScan
    \/ ScanPattern /\ UNCHANGED besideScan
    \/ Line326 /\ UNCHANGED besideScan
    \/ ForKey /\ UNCHANGED besideScan
    \/ Type /\ UNCHANGED besideScan
    \/ LengthCmd /\ UNCHANGED besideScan
    \/ AddTotal /\ UNCHANGED besideScan
    \/ AppendDetail /\ UNCHANGED besideScan
    \/ XLen /\ UNCHANGED besideScan
    \/ XInfoGroups /\ UNCHANGED besideScan
    \/ ForGroup /\ UNCHANGED besideScan
    \/ XPending /\ UNCHANGED besideScan
    \/ XPendingRange /\ UNCHANGED besideScan
    \/ AddUnread /\ UNCHANGED besideScan
    \/ Effective /\ UNCHANGED besideScan
    \/ StreamAddTotal /\ UNCHANGED besideScan
    \/ StreamAppend /\ UNCHANGED besideScan
    \/ CancelAlarm /\ UNCHANGED besideScan
    \/ Sort /\ UNCHANGED besideScan
    \/ PelStats /\ UNCHANGED besideScan
    \/ Estimate /\ UNCHANGED besideScan
    \/ LogScan /\ UNCHANGED besideScan
    \/ ExceptTimeout /\ UNCHANGED besideScan
    \/ ExceptError /\ UNCHANGED besideScan
    \/ Finally /\ UNCHANGED besideScan
    \/ Fire /\ UNCHANGED besideScan

\* one call of get_queue_info_with_timeout against any of the stores
ScanSpec == ScanInit /\ [][ScanNext]_vars

\* one call against a store whose SCAN does not complete for some pattern
StuckScanInit == ScanInit /\ store.stuck # 0

\* such a call, where the interpreter keeps executing the function and a
\* pending alarm is delivered when its time has come
FairScanSpec == StuckScanInit /\ [][ScanNext]_vars
                    /\ WF_vars(ScanStep /\ UNCHANGED besideScan)
                    /\ WF_vars(Fire /\ UNCHANGED besideScan)

-----------------------------------------------------------------------------
(* Properties of get_queue_info_with_timeout *)

Returned == pc = "done"
Finished == pc \in {"done", "raised"}

\* C1: if the alarm fires before the pattern and key phases have finished,
\* the function returns the Timeout result (the alarm can only fire while
\* armed, that is before the cancel at 467).
C1_TimeoutWhenFired ==
    (Finished /\ alarm_fired) => (Returned /\ result = TimeoutResult)

\* C2: against a store whose SCAN never completes for some pattern, the
\* function eventually returns.
C2_ScanTerminates ==
    (store.stuck # 0 /\ in_main_thread) => <>Returned

\* C3: no store command is started after the alarm has fired.
C3_NoCommandAfterFire == ~cmd_after_fire

\* the store of the end-to-end example: list queue:jobs of length 7, stream
\* events with one group of lag 2 and one pending entry aged 5000 ms
ExampleStore ==
    [vals |-> [k \in KeyNames |->
                 IF k = K_jobs THEN Plain("list", 7)
                 ELSE IF k = K_events THEN EventsStream
                 ELSE Absent],
     stuck |-> 0]

Names(details) == { details[i].name : i \in 1..Len(details) }

\* C4: when every store command succeeds and the alarm does not fire, the
\* function returns the success result with a numeric total; for the example
\* store both keys are listed, the total is 10 and the PEL indicator is OK.
C4_SuccessWhenUndisturbed ==
    (Returned /\ in_main_thread /\ faults = 0 /\ ~alarm_fired) =>
        /\ result.total_messages_in_queues.tag = "int"
        /\ store = ExampleStore =>
              /\ Names(result.queue_details) = {K_jobs, K_events}
              /\ result.total_messages_in_queues.n = 10
              /\ result.pel_problem_indicator = "OK"

SumLengths(details) == SumSeq([i \in 1..Len(details) |-> details[i].length])

\* the key loop is between two iterations, or has ended
BetweenKeys == pc \in {"for_key", "cancel_alarm", "sort", "pel_stats", "estimate", "log_scan"}

\* C5: between the iterations of the key loop and after it, total_messages
\* is the sum of the lengths recorded in queue_details.
C5_TotalIsSumOfLengths ==
    BetweenKeys => total_messages = SumLengths(queue_details)

\* the same, for scans during which the alarm was not delivered
C5_TotalIsSumUnlessFired ==
    (BetweenKeys /\ ~alarm_fired) => total_messages = SumLengths(queue_details)

StreamEntries(details) ==
    { i \in 1..Len(details) : details[i].type = "stream" }

\* the ages (ms) of oldest pending messages recorded for a stream entry
RecordedAges(entry) ==
    { entry.stream_info.pel_details[j].oldest_message_age_ms :
        j \in { n \in 1..Len(entry.stream_info.pel_details) :
                  "oldest_message_age_ms" \in DOMAIN entry.stream_info.pel_details[n] } }

PelComputed == pc \in {"estimate", "log_scan"}

\* C6: pel_problem_detected is true exactly when some stream in queue_details
\* has a pending count above 0 and an oldest pending message older than
\* 30000 ms; exactly 30000 ms is not a problem.
C6_PelProblemIff ==
    PelComputed =>
        (pel_problem_detected <=>
            \E i \in StreamEntries(queue_details) :
                /\ queue_details[i].stream_info.pending_count > 0
                /\ \E a \in RecordedAges(queue_details[i]) : a > 30000)

C6_Witness ==
    /\ PelComputed
    /\ pel_problem_detected
    /\ faults = 0 /\ ~alarm_fired

\* C7: the function never raises to its caller; what it returns is the
\* success, Timeout or Error result, and the latter two carry the string
\* marker and an empty queue list.
C7_NeverRaises ==
    /\ pc # "raised"
    /\ Returned =>
          /\ result.returned
          /\ \/ result.total_messages_in_queues.tag = "int"
             \/ /\ result.total_messages_in_queues.tag = "str"
                /\ result.total_messages_in_queues.s \in {"Timeout", "Error"}
                /\ result.queue_details = << >>

C7_Witness ==
    /\ Returned
    /\ alarm_fired
    /\ faults > 0
    /\ result = ErrorResult

-----------------------------------------------------------------------------
(* The access gate, src/app.py:110-176.  Text is a sequence of characters;  *)
(* a value that is absent (None) is Missing, which equals no text.          *)

Missing == << "<None>" >>
Truthy(x) == x # Missing /\ x # << >>

Str_Bearer_ == << "B", "e", "a", "r", "e", "r", " " >>
Str_Basic_  == << "B", "a", "s", "i", "c", " " >>

\* str.startswith
StartsWith(s, prefix) ==
    Len(s) >= Len(prefix) /\ SubSeq(s, 1, Len(prefix)) = prefix

\* str.split(sep): the fields between the separators
RECURSIVE Split(_, _)
Split(s, sep) ==
    IF \A i \in 1..Len(s) : s[i] # sep THEN << s >>
    ELSE LET i == CHOOSE n \in 1..Len(s) : s[n] = sep /\ \A m \in 1..(n - 1) : s[m] # sep
         IN  << SubSeq(s, 1, i - 1) >> \o Split(SubSeq(s, i + 1, Len(s)), sep)

\* str.strip
RECURSIVE LStrip(_)
LStrip(s) == IF s # << >> /\ Head(s) = " " THEN LStrip(Tail(s)) ELSE s
RECURSIVE RStrip(_)
RStrip(s) == IF s # << >> /\ s[Len(s)] = " " THEN RStrip(SubSeq(s, 1, Len(s) - 1)) ELSE s
Strip(s) == RStrip(LStrip(s))

\* load_config, 84: ALLOWED_IPS from the environment variable
AllowedIpsOf(envvar) ==
    IF Truthy(envvar) THEN Split(envvar, ",") ELSE << >>

\* mutant of check_ip_whitelist: the first address is not stripped
check_ip_whitelist_NoStrip(cfg, req) ==
    IF cfg.ALLOWED_IPS = << >> \/ \A i \in 1..Len(cfg.ALLOWED_IPS) : cfg.ALLOWED_IPS[i] = << >>
    THEN TRUE
    ELSE LET got == IF req.x_forwarded_for # Missing THEN req.x_forwarded_for
                    ELSE req.remote_addr
             client_ip == IF Truthy(got) THEN Split(got, ",")[1] ELSE got
         IN  client_ip \in Range(cfg.ALLOWED_IPS)

\* 126-137
check_ip_whitelist(cfg, req) ==
    IF cfg.ALLOWED_IPS = << >> \/ \A i \in 1..Len(cfg.ALLOWED_IPS) : cfg.ALLOWED_IPS[i] = << >>
    THEN TRUE
    ELSE LET got == IF req.x_forwarded_for # Missing THEN req.x_forwarded_for
                    ELSE req.remote_addr
             client_ip == IF Truthy(got) THEN Strip(Split(got, ",")[1]) ELSE got
         IN  client_ip \in Range(cfg.ALLOWED_IPS)

\* 139-152
check_security_token(cfg, req) ==
    IF ~Truthy(cfg.SECURITY_TOKEN) THEN TRUE
    ELSE LET arg == req.token_arg
             auth_header == req.authorization
             token == IF Truthy(arg) THEN arg
                      ELSE IF Truthy(auth_header) /\ StartsWith(auth_header, Str_Bearer_)
                           THEN Split(auth_header, " ")[2]
                           ELSE arg
         IN  token = cfg.SECURITY_TOKEN

\* mutant of check_auth: the user name is not compared
check_auth_PasswordOnly(cfg, username, password) ==
    IF ~Truthy(cfg.AUTH_PASSWORD) THEN TRUE
    ELSE password = cfg.AUTH_PASSWORD

\* 110-116
check_auth(cfg, username, password) ==
    IF ~Truthy(cfg.AUTH_PASSWORD) THEN TRUE
    ELSE username = cfg.AUTH_USERNAME /\ password = cfg.AUTH_PASSWORD

\* 168-173: request.authorization is the parsed Basic credentials, if any
basic_auth_ok(cfg, req) ==
    IF Truthy(cfg.AUTH_PASSWORD)
    THEN /\ req.basic # Missing
         /\ check_auth(cfg, req.basic[1], req.basic[2])
    ELSE TRUE

A_ == << "a" >>
B_ == << "b" >>
T_ == << "t" >>
X_ == << "x" >>
TU_ == << "t", " ", "u" >>
P_ == << "p" >>
Q_ == << "q" >>
Admin_ == << "a", "d", "m", "i", "n" >>
Eve_ == << "e", "v", "e" >>

\* values of the ALLOWED_IPS environment variable
AllowedEnv ==
    { Missing, << >>, << "," >>, A_, << "a", ",", "b" >>, << "a", ",", " ", "b" >>,
      << "a", "," >> }

ForwardedFor ==
    { Missing, << >>, A_, B_, << " ", "a", " " >>, << "b", ",", "a" >>,
      << "a", ",", "b" >>, << " ", "b", ",", "a" >> }

RemoteAddr == { A_, B_, Missing }

TokenConfigs == { Missing, << >>, T_, TU_ }

TokenArgs == { Missing, << >>, T_, X_ }

\* Authorization headers that are not Basic credentials
BearerHeaders ==
    { Missing,
      Str_Bearer_ \o T_,
      Str_Bearer_ \o X_,
      Str_Bearer_ \o TU_,
      Str_Bearer_,
      << "B", "e", "a", "r", "e", "r" >>,
      Str_Bearer_ \o << " " >> \o T_,
      << "b", "e", "a", "r", "e", "r", " ", "t" >> }

BasicCredentials == { << Admin_, P_ >>, << Admin_, Q_ >>, << Eve_, P_ >> }

Configs ==
    { [ALLOWED_IPS |-> AllowedIpsOf(e), SECURITY_TOKEN |-> t,
       AUTH_USERNAME |-> Admin_, AUTH_PASSWORD |-> p] :
        e \in AllowedEnv, t \in TokenConfigs, p \in { Missing, P_ } }

Requests ==
    { [x_forwarded_for |-> f, remote_addr |-> r, token_arg |-> a,
       authorization |-> h, basic |-> Missing] :
        f \in ForwardedFor, r \in RemoteAddr, a \in TokenArgs, h \in BearerHeaders }
    \cup
    { [x_forwarded_for |-> f, remote_addr |-> r, token_arg |-> a,
       authorization |-> Str_Basic_ \o << "#" >>, basic |-> c] :
        f \in ForwardedFor, r \in RemoteAddr, a \in TokenArgs, c \in BasicCredentials }

NoResponse == [status |-> 0, body |-> "", headers |-> {}]

GateInit ==
    /\ config \in Configs
    /\ request \in Requests
    /\ gate_pc = "ip"
    /\ checks_run = << >>
    /\ response = NoResponse
    /\ handler_ran = FALSE
    /\ connections_opened = 0

\* mutant of GateIp: the 403 is built but not returned
GateIp_NoReturn ==
    /\ gate_pc = "ip"
    /\ checks_run' = Append(checks_run, "ip")
    /\ IF ~check_ip_whitelist(config, request)
       THEN response' = [status |-> 403, body |-> "Access denied: IP not allowed",
                         headers |-> {}]
       ELSE UNCHANGED response
    /\ gate_pc' = "token"
    /\ UNCHANGED << config, request, handler_ran, connections_opened >>

\* 159-161
GateIp ==
    /\ gate_pc = "ip"
    /\ checks_run' = Append(checks_run, "ip")
    /\ IF ~check_ip_whitelist(config, request)
       THEN /\ response' = [status |-> 403, body |-> "Access denied: IP not allowed",
                            headers |-> {}]
            /\ gate_pc' = "denied"
       ELSE /\ gate_pc' = "token"
            /\ UNCHANGED response
    /\ UNCHANGED << config, request, handler_ran, connections_opened >>

\* 164-166
GateToken ==
    /\ gate_pc = "token"
    /\ checks_run' = Append(checks_run, "token")
    /\ IF ~check_security_token(config, request)
       THEN /\ response' = [status |-> 403,
                            body |-> "Access denied: Invalid or missing security token",
                            headers |-> {}]
            /\ gate_pc' = "denied"
       ELSE /\ gate_pc' = "basic"
            /\ UNCHANGED response
    /\ UNCHANGED << config, request, handler_ran, connections_opened >>

\* 169-173, and authenticate, 118-124
GateBasic ==
    /\ gate_pc = "basic"
    /\ checks_run' = Append(checks_run, "basic")
    /\ IF ~basic_auth_ok(config, request)
       THEN /\ response' = [status |-> 401,
                            body |-> "Authentication required. Please provide valid credentials.",
                            headers |-> {"WWW-Authenticate"}]
            /\ gate_pc' = "denied"
       ELSE /\ gate_pc' = "handler"
            /\ UNCHANGED response
    /\ UNCHANGED << config, request, handler_ran, connections_opened >>

\* 175: the wrapped route runs; /api/valkey opens its store connection
GateHandler ==
    /\ gate_pc = "handler"
    /\ handler_ran' = TRUE
    /\ connections_opened' = connections_opened + 1
    /\ response' = [status |-> 200, body |-> "stats", headers |-> {}]
    /\ gate_pc' = "served"
    /\ UNCHANGED << config, request, checks_run >>

ScanIdle ==
    /\ store = [vals |-> [k \in KeyNames |-> Absent], stuck |-> 0]
    /\ in_main_thread = TRUE
    /\ pc = "idle"
    /\ alarm_armed = FALSE
    /\ alarm_fired = FALSE
    /\ faults = 0
    /\ cmd_after_fire = FALSE
    /\ total_messages = 0
    /\ queue_details = << >>
    /\ cursor = 0
    /\ scan_count = 0
    /\ sample_keys = << >>
    /\ pattern_idx = 0
    /\ all_queue_keys = {}
    /\ key_list = << >>
    /\ key = << >>
    /\ key_type = ""
    /\ length = 0
    /\ total_stream_length = 0
    /\ pending_count = 0
    /\ stream_info = NoInfo
    /\ groups_info = << >>
    /\ group_name = ""
    /\ lag = << 0 >>
    /\ pending_summary = << >>
    /\ total_pending = 0
    /\ effective_count = 0
    /\ total_pel_messages = 0
    /\ pel_problem_detected = FALSE
    /\ oldest_pel_age_ms = 0
    /\ total_undelivered_messages = None
    /\ result = NoResult

GateSpecInit == GateInit /\ ScanIdle /\ ServeIdle /\ ConcIdle

GateNext ==
    \/ GateIp /\ UNCHANGED besideGate
    \/ GateToken /\ UNCHANGED besideGate
    \/ GateBasic /\ UNCHANGED besideGate
    \/ GateHandler /\ UNCHANGED besideGate

\* one request to a route wrapped by requires_auth, under any configuration
GateSpec == GateSpecInit /\ [][GateNext]_vars

-----------------------------------------------------------------------------
(* Properties of the access gate *)

GateOrder == << "ip", "token", "basic" >>

Passes(check) ==
    IF check = "ip" THEN check_ip_whitelist(config, request)
    ELSE IF check = "token" THEN check_security_token(config, request)
    ELSE basic_auth_ok(config, request)

Denied == gate_pc = "denied"
DeniedBy(check) == Denied /\ checks_run # << >> /\ checks_run[Len(checks_run)] = check

\* C8: the checks run in the order IP, token, credentials; the first one
\* that fails answers (403, 403, 401) and nothing after it runs: no later
\* check, no handler, no connection.
C8_GateOrder ==
    /\ Len(checks_run) <= Len(GateOrder)
    /\ checks_run = SubSeq(GateOrder, 1, Len(checks_run))
    /\ \A i \in 1..Len(checks_run) :
          i < Len(checks_run) => Passes(GateOrder[i])
    /\ Denied =>
          /\ ~Passes(checks_run[Len(checks_run)])
          /\ response.status = IF DeniedBy("basic") THEN 401 ELSE 403
          /\ ~handler_ran
          /\ connections_opened = 0
    /\ (handler_ran \/ connections_opened > 0) =>
          /\ checks_run = GateOrder
          /\ \A i \in 1..Len(GateOrder) : Passes(GateOrder[i])

C8_Witness ==
    /\ DeniedBy("token")
    /\ config.ALLOWED_IPS # << >>
    /\ Truthy(config.AUTH_PASSWORD)
    /\ ~basic_auth_ok(config, request)

\* the address the allow-list is asked about: the first address of
\* X-Forwarded-For, or the peer address when the header is absent
ClaimedAddress(req) ==
    IF req.x_forwarded_for # Missing
    THEN Strip(Split(req.x_forwarded_for, ",")[1])
    ELSE req.remote_addr

IpChecked == Len(checks_run) >= 1
IpPassed == IpChecked /\ ~DeniedBy("ip")

\* C9 as stated: an empty allow-list passes every request; a non-empty one
\* passes exactly the requests whose address is in it, and answers 403 to
\* the others.
C9_AllowListAsStated ==
    IpChecked =>
        /\ IpPassed <=> \/ config.ALLOWED_IPS = << >>
                        \/ ClaimedAddress(request) \in Range(config.ALLOWED_IPS)
        /\ ~IpPassed => response.status = 403

\* no entry of the list is a non-empty string
NoRestriction(ips) == \A i \in 1..Len(ips) : ips[i] = << >>

\* C9 amended: an allow-list that is empty or holds only empty entries
\* passes every request; any other passes exactly the requests whose
\* address is in it, and answers 403 to the others.
C9_AllowList ==
    IpChecked =>
        /\ IpPassed <=> \/ NoRestriction(config.ALLOWED_IPS)
                        \/ ClaimedAddress(request) \in Range(config.ALLOWED_IPS)
        /\ ~IpPassed => response.status = 403

C9_Witness ==
    /\ DeniedBy("ip")
    /\ request.x_forwarded_for = << "b", ",", "a" >>
    /\ request.remote_addr = A_
    /\ A_ \in Range(config.ALLOWED_IPS)

TokenChecked == Len(checks_run) >= 2
TokenPassed == TokenChecked /\ ~DeniedBy("token")

InQuery(cfg, req) == req.token_arg = cfg.SECURITY_TOKEN
InBearerHeader(cfg, req) ==
    /\ req.authorization # Missing
    /\ StartsWith(req.authorization, Str_Bearer_)
    /\ \/ req.authorization = Str_Bearer_ \o cfg.SECURITY_TOKEN
       \/ Split(req.authorization, " ")[2] = cfg.SECURITY_TOKEN

\* C10: with no token configured every request passes the token check; with
\* one configured, a request presenting it in the query parameter or in the
\* Bearer header passes, and one presenting it in neither is answered 403.
C10_TokenInEitherPlace ==
    TokenChecked =>
        IF ~Truthy(config.SECURITY_TOKEN) THEN TokenPassed
        ELSE /\ (InQuery(config, request) \/ InBearerHeader(config, request)) => TokenPassed
             /\ (~InQuery(config, request) /\ ~InBearerHeader(config, request)) =>
                    (DeniedBy("token") /\ response.status = 403)

CredentialsChecked == Len(checks_run) >= 3
CredentialsMatch(cfg, req) ==
    /\ req.basic # Missing
    /\ req.basic[1] = cfg.AUTH_USERNAME
    /\ req.basic[2] = cfg.AUTH_PASSWORD

\* C11: with a password configured, a request that passed the IP and token
\* checks reaches the handler only with basic-auth credentials equal to the
\* configured user name and password, and is otherwise answered 401 with a
\* WWW-Authenticate challenge; with no password configured the credential
\* check passes every request.
C11_Credentials ==
    /\ CredentialsChecked =>
          IF Truthy(config.AUTH_PASSWORD) /\ ~CredentialsMatch(config, request)
          THEN /\ DeniedBy("basic")
               /\ response.status = 401
               /\ "WWW-Authenticate" \in response.headers
               /\ ~handler_ran
          ELSE gate_pc \in {"handler", "served"}
    /\ (handler_ran /\ Truthy(config.AUTH_PASSWORD)) => CredentialsMatch(config, request)

C11_Witness ==
    /\ DeniedBy("basic")
    /\ Truthy(config.SECURITY_TOKEN)
    /\ request.basic = << Eve_, P_ >>

-----------------------------------------------------------------------------
(* The route handlers and the aggregators they call, src/app.py:611-1390.   *)
(* One request is served; the store, the database and the RTSP service      *)
(* answer or fault as `backend` says.  Closing a client or a connection     *)
(* does not fault.                                                          *)

\* int(text): surrounding blanks and a sign are accepted around decimal digits
DigitChars == << "0", "1", "2", "3", "4", "5", "6", "7", "8", "9" >>
IsDigits(s) == s # << >> /\ \A i \in 1..Len(s) : s[i] \in Range(DigitChars)
DigitValue(c) == (CHOOSE d \in 1..10 : DigitChars[d] = c) - 1
RECURSIVE DigitsValue(_)
DigitsValue(s) ==
    IF s = << >> THEN 0
    ELSE DigitsValue(SubSeq(s, 1, Len(s) - 1)) * 10 + DigitValue(s[Len(s)])

ValueError == [ok |-> FALSE, n |-> 0]
ParseInt(s) ==
    LET t == Strip(s)
        signed == t # << >> /\ Head(t) \in {"-", "+"}
        digits == IF signed THEN Tail(t) ELSE t
    IN  IF ~IsDigits(digits) THEN ValueError
        ELSE [ok |-> TRUE,
              n |-> IF signed /\ Head(t) = "-" THEN 0 - DigitsValue(digits)
                    ELSE DigitsValue(digits)]

\* request.args.get(name, default) then int(...)
IntArg(arg, default) == IF arg = Missing THEN [ok |-> TRUE, n |-> default] ELSE ParseInt(arg)

\* 1185: the cap of min(int(...), 1000)
MaxLimit == 1000
\* 1185: the default of request.args.get('limit', 50)
DefaultLimit == 50
\* 1184: the default of request.args.get('page', 1)
DefaultPage == 1

\* 813-829: the health status of one row of pg_stat_user_tables.  The ratio
\* (dead / live) * 100 is a double; for the counts considered here it compares
\* with 10 and 20 as the exact ratio does.
OrZero(x) == IF x = None THEN 0 ELSE x[1]
health_status(table) ==
    LET live == OrZero(table.live_tuples)
        dead == OrZero(table.dead_tuples)
        total_ops == OrZero(table.inserts) + OrZero(table.updates) + OrZero(table.deletes)
    IN  IF live > 0
        THEN IF dead * 100 > 20 * live THEN "Needs Vacuum"
             ELSE IF dead * 100 > 10 * live THEN "Fair"
             ELSE "Good"
        ELSE IF total_ops = 0 THEN "Empty" ELSE "Good"

\* 810-831
RECURSIVE EnhancedTables(_)
EnhancedTables(ts) ==
    IF ts = << >> THEN << >>
    ELSE << [live_tuples |-> Head(ts).live_tuples, dead_tuples |-> Head(ts).dead_tuples,
             health_status |-> health_status(Head(ts))] >> \o EnhancedTables(Tail(ts))

\* 925, 941
OverallHealth(enhanced) ==
    LET n == Cardinality({ i \in 1..Len(enhanced) : enhanced[i].health_status = "Needs Vacuum" })
    IN  IF n = 0 THEN "Good" ELSE "tables need attention"

\* str.lstrip('/'), str.rstrip('/')
RECURSIVE LStripSlash(_)
LStripSlash(s) == IF s # << >> /\ Head(s) = "/" THEN LStripSlash(Tail(s)) ELSE s
RECURSIVE RStripSlash(_)
RStripSlash(s) ==
    IF s # << >> /\ s[Len(s)] = "/" THEN RStripSlash(SubSeq(s, 1, Len(s) - 1)) ELSE s

\* a value that is not text (a number from the JSON config file, a non-string column)
NonText == << "<int>" >>
IsText(x) == x # Missing /\ x # NonText

\* 1287: the default of config.get('SPACES_ENDPOINT', ...)
Endpoint_ == << "https://fra1.digitaloceanspaces.com" >>
\* 1315-1319: what generate_presigned_url returns for a key
SignedUrl(bucket, p) == << "<signed>" >> \o Endpoint_ \o << "/" >> \o bucket \o << "/" >> \o p

\* mutant of build_image_url: a signing failure returns the path
build_image_url_PathOnSigningFailure(sp, path) ==
    IF path = Missing \/ path = << >> THEN path
    ELSE IF ~Truthy(sp.SPACES_BUCKET) THEN path
    ELSE IF ~IsText(path) THEN path
    ELSE LET bucket == sp.SPACES_BUCKET
             stripped == LStripSlash(path)
             p == IF StartsWith(stripped, bucket \o << "/" >>)
                  THEN SubSeq(stripped, Len(bucket) + 2, Len(stripped))
                  ELSE stripped
             credentials == Truthy(sp.SPACES_ACCESS_KEY) /\ Truthy(sp.SPACES_SECRET_KEY)
         IN  IF credentials /\ sp.boto3 = "ok" THEN SignedUrl(bucket, p)
             ELSE IF credentials THEN path
             ELSE IF sp.SPACES_PUBLIC_BASE_URL = NonText THEN path
             ELSE IF Truthy(sp.SPACES_PUBLIC_BASE_URL)
                  THEN RStripSlash(sp.SPACES_PUBLIC_BASE_URL) \o << "/" >> \o p
             ELSE Endpoint_ \o << "/" >> \o bucket \o << "/" >> \o p

\* 1279-1337.  sp.boto3 says how the signing goes: "ok", "ImportError" (boto3
\* is not installed) or "Exception" (the client or the signing call raises).
build_image_url(sp, path) ==
    IF path = Missing \/ path = << >> THEN path
    ELSE IF ~Truthy(sp.SPACES_BUCKET) THEN path
    ELSE IF ~IsText(path) THEN path                     \* path.lstrip raises, 1335-1337
    ELSE LET bucket == sp.SPACES_BUCKET
             stripped == LStripSlash(path)
             p == IF StartsWith(stripped, bucket \o << "/" >>)
                  THEN SubSeq(stripped, Len(bucket) + 2, Len(stripped))
                  ELSE stripped
             credentials == Truthy(sp.SPACES_ACCESS_KEY) /\ Truthy(sp.SPACES_SECRET_KEY)
         IN  IF credentials /\ sp.boto3 = "ok" THEN SignedUrl(bucket, p)
             ELSE IF sp.SPACES_PUBLIC_BASE_URL = NonText THEN path   \* base_url.rstrip raises
             ELSE IF Truthy(sp.SPACES_PUBLIC_BASE_URL)
                  THEN RStripSlash(sp.SPACES_PUBLIC_BASE_URL) \o << "/" >> \o p
             ELSE Endpoint_ \o << "/" >> \o bucket \o << "/" >> \o p

\* the routes that answer JSON, and those of them wrapped by requires_auth
Routes ==
    { "/health", "/api/stats", "/api/valkey", "/api/postgres", "/api/rtsp-reader",
      "/api/clients", "/api/observations" }
GatedRoutes == Routes \ { "/health" }

\* the kinds of result get_queue_info_with_timeout returns (537, 574, 590)
ScanKinds == { "Success", "Timeout", "Error" }

\* how the store behaves during get_valkey_stats: unreachable, or reachable
\* with at most one faulting command
ValkeyCases ==
    { [up |-> FALSE, fault |-> "none", scan |-> "Error"],
      [up |-> TRUE, fault |-> "info", scan |-> "Error"] }
    \cup { [up |-> TRUE, fault |-> f, scan |-> s] : f \in {"none", "dbsize"}, s \in ScanKinds }

\* how the database behaves: unreachable, or reachable with at most one of
\* the given steps faulting
PostgresCases(steps) ==
    { [up |-> FALSE, fault |-> "none"] }
    \cup { [up |-> TRUE, fault |-> f] : f \in steps \cup {"none"} }

StatsSteps == { "cursor", "size", "tables", "connections", "activity", "application", "cursor.close" }
ClientsSteps == { "cursor", "query" }
ObservationsSteps == { "cursor", "count", "data" }

\* requests.get(...): answers JSON, raises a RequestException, or answers
\* something the code cannot read
RtspCases == { "ok", "RequestException", "Exception" }

Backends(vs, ps, rs) ==
    { [valkey_up |-> v.up, valkey_fault |-> v.fault, scan |-> v.scan,
       postgres_up |-> p.up, postgres_fault |-> p.fault, rtsp |-> r] :
        v \in vs, p \in ps, r \in rs }

ValkeyFine == [up |-> TRUE, fault |-> "none", scan |-> "Error"]
PostgresFine == [up |-> TRUE, fault |-> "none"]

\* rows of pg_stat_user_tables
Row(live, dead, ops) ==
    [live_tuples |-> live, dead_tuples |-> dead, inserts |-> ops, updates |-> << 0 >>,
     deletes |-> << 0 >>]
TableRows ==
    { Row(<< 100 >>, << d >>, << 7 >>) : d \in {0, 5, 9, 10, 11, 19, 20, 21, 25} }
    \cup { Row(<< 3 >>, << 1 >>, << 7 >>), Row(<< 0 >>, << 0 >>, << 0 >>),
           Row(<< 0 >>, << 0 >>, << 7 >>), Row(<< 0 >>, << 4 >>, << 0 >>),
           Row(None, None, None) }
TableLists ==
    { << >> } \cup { << r >> : r \in TableRows }
    \cup { << Row(<< 100 >>, << 25 >>, << 7 >>), r >> : r \in TableRows }
SomeTables == << Row(<< 100 >>, << 25 >>, << 7 >>), Row(<< 100 >>, << 5 >>, << 7 >>) >>

\* 1186-1199: the sort column and direction of /api/observations
Id_ == << "i", "d" >>
CreatedAt_ == << "c", "r", "e", "a", "t", "e", "d", "_", "a", "t" >>
TsStart_ == << "t", "s", "_", "s", "t", "a", "r", "t" >>
Asc_ == << "a", "s", "c" >>
Desc_ == << "d", "e", "s", "c" >>

\* 1191-1194
allowed_sort_columns ==
    << << "i", "d" >>,
       << "j", "o", "b", "_", "i", "d" >>,
       << "c", "l", "i", "e", "n", "t", "_", "i", "d" >>,
       << "s", "t", "r", "e", "a", "m", "_", "i", "d" >>,
       << "o", "b", "s", "e", "r", "v", "a", "t", "i", "o", "n", "_", "t", "y", "p", "e" >>,
       << "o", "b", "j", "e", "c", "t", "_", "c", "l", "a", "s", "s" >>,
       << "c", "o", "n", "f", "i", "d", "e", "n", "c", "e" >>,
       << "t", "s", "_", "s", "t", "a", "r", "t" >>,
       << "t", "s", "_", "e", "n", "d" >>,
       << "c", "r", "e", "a", "t", "e", "d", "_", "a", "t" >>,
       << "t", "r", "a", "c", "k", "i", "n", "g", "_", "i", "d" >>,
       << "d", "e", "t", "e", "c", "t", "i", "o", "n", "_", "i", "d" >> >>

UpperChars == << "A", "B", "C", "D", "E", "F", "G", "H", "I", "J", "K", "L", "M", "N", "O", "P", "Q", "R", "S", "T", "U", "V", "W", "X", "Y", "Z" >>
LowerChars == << "a", "b", "c", "d", "e", "f", "g", "h", "i", "j", "k", "l", "m", "n", "o", "p", "q", "r", "s", "t", "u", "v", "w", "x", "y", "z" >>
\* str.lower() and str.upper() on text of ASCII characters
Lower(s) ==
    [i \in 1..Len(s) |->
        IF \E j \in 1..Len(UpperChars) : UpperChars[j] = s[i]
        THEN LowerChars[CHOOSE j \in 1..Len(UpperChars) : UpperChars[j] = s[i]]
        ELSE s[i]]
Upper(s) ==
    [i \in 1..Len(s) |->
        IF \E j \in 1..Len(LowerChars) : LowerChars[j] = s[i]
        THEN UpperChars[CHOOSE j \in 1..Len(LowerChars) : LowerChars[j] = s[i]]
        ELSE s[i]]

\* mutant of sort_by: the parameter is used as sent
sort_by_Unchecked(a) == IF a.sort = Missing THEN CreatedAt_ ELSE a.sort

\* 1187, 1195-1196
sort_by(a) ==
    LET sent == IF a.sort = Missing THEN CreatedAt_ ELSE a.sort
    IN  IF sent \notin Range(allowed_sort_columns) THEN CreatedAt_ ELSE sent

\* 1188, 1197-1198
sort_order(a) ==
    LET sent == Lower(IF a.order = Missing THEN Desc_ ELSE a.order)
    IN  IF sent \notin { Asc_, Desc_ } THEN Desc_ ELSE sent

\* the page and limit parameters as the client sent them
PageArgs == { Missing, << "1" >>, << "2" >>, << "0" >>, << "-", "1" >>, << "a", "b", "c" >> }
LimitArgs ==
    { Missing, << "5", "0", "0", "0" >>, << "1", "0", "0", "0" >>, << "1", "0", "0", "1" >>,
      << "9", "9", "9" >>, << " ", "7" >>, << "0" >>, << "-", "5" >>, << "1", "e", "3" >>, << >> }
\* the sort and order parameters as the client sent them
SortParams ==
    { Missing, << >>, Id_, CreatedAt_, TsStart_,
      << "I", "D" >>, << "i", "d", " " >>, << "b", "b", "o", "x", "_", "x" >>,
      << "i", "d", ";", " ", "D", "R", "O", "P", " ", "T", "A", "B", "L", "E", " ", "o", "b", "s", "e", "r", "v", "a", "t", "i", "o", "n", "s", " ", "-", "-" >> }
OrderParams ==
    { Missing, << >>, Asc_, Desc_, << "A", "S", "C" >>, << "D", "e", "s", "c" >>, << " ", "a", "s", "c" >>,
      << "a", "s", "c", "e", "n", "d", "i", "n", "g" >>, << "a", "s", "c", ",", " ", "(", "S", "E", "L", "E", "C", "T", " ", "1", ")" >> }
NoArgs == [page |-> Missing, limit |-> Missing, sort |-> Missing, order |-> Missing]
ArgSets ==
    { [page |-> pg, limit |-> lm, sort |-> Missing, order |-> Missing] :
        pg \in PageArgs, lm \in LimitArgs }
    \cup
    { [page |-> Missing, limit |-> Missing, sort |-> st, order |-> od] :
        st \in SortParams, od \in OrderParams }

\* object-store settings (load_config, 88-92) and the image_path of the stored row
Bucket_ == << "b" >>
Key_ == << "k" >>
BaseUrl_ == << "https://cdn.example", "/" >>
ImagePaths ==
    { Missing, << >>, << "/", "b", "/", "x", ".jpg" >>, << "x", ".jpg" >>, NonText }
SpacesSets ==
    { [SPACES_BUCKET |-> b, SPACES_ACCESS_KEY |-> k, SPACES_SECRET_KEY |-> k,
       SPACES_PUBLIC_BASE_URL |-> u, boto3 |-> o, image_path |-> ip] :
        b \in { Missing, Bucket_ }, k \in { Missing, Key_ },
        u \in { Missing, BaseUrl_, NonText }, o \in { "ok", "ImportError", "Exception" },
        ip \in ImagePaths }
NoSpaces ==
    [SPACES_BUCKET |-> Missing, SPACES_ACCESS_KEY |-> Missing, SPACES_SECRET_KEY |-> Missing,
     SPACES_PUBLIC_BASE_URL |-> Missing, boto3 |-> "ok", image_path |-> Missing]

\* 1256: the count the database reports for the observations table
TotalObservations == 120

\* the inputs of a request, by route
ServeInputs(r) ==
    IF r = "/health"
    THEN { [backend |-> b, args |-> NoArgs, tables |-> << >>, spaces |-> NoSpaces] :
             b \in Backends({ [up |-> u, fault |-> "none", scan |-> "Error"] : u \in BOOLEAN },
                            PostgresCases({}), {"ok"}) }
    ELSE IF r = "/api/stats"
    THEN { [backend |-> b, args |-> NoArgs, tables |-> SomeTables, spaces |-> NoSpaces] :
             b \in Backends(ValkeyCases, PostgresCases(StatsSteps), RtspCases) }
    ELSE IF r = "/api/valkey"
    THEN { [backend |-> b, args |-> NoArgs, tables |-> << >>, spaces |-> NoSpaces] :
             b \in Backends(ValkeyCases, {PostgresFine}, {"ok"}) }
    ELSE IF r = "/api/postgres"
    THEN { [backend |-> b, args |-> NoArgs, tables |-> t, spaces |-> NoSpaces] :
             b \in Backends({ValkeyFine}, PostgresCases(StatsSteps), {"ok"}),
             t \in TableLists }
    ELSE IF r = "/api/rtsp-reader"
    THEN { [backend |-> b, args |-> NoArgs, tables |-> << >>, spaces |-> NoSpaces] :
             b \in Backends({ValkeyFine}, {PostgresFine}, RtspCases) }
    ELSE IF r = "/api/clients"
    THEN { [backend |-> b, args |-> NoArgs, tables |-> << >>, spaces |-> NoSpaces] :
             b \in Backends({ValkeyFine}, PostgresCases(ClientsSteps), {"ok"}) }
    ELSE { [backend |-> b, args |-> a, tables |-> << >>, spaces |-> NoSpaces] :
             b \in Backends({ValkeyFine}, PostgresCases(ObservationsSteps), {"ok"}),
             a \in ArgSets }
         \cup
         { [backend |-> b, args |-> NoArgs, tables |-> << >>, spaces |-> sp] :
             b \in Backends({ValkeyFine}, {PostgresFine}, {"ok"}),
             sp \in SpacesSets }

\* the configurations and the request the routes are served under: no IP
\* restriction, no password, any token setting, a request without a token
ServeConfigs == { c \in Configs : c.ALLOWED_IPS = << >> /\ c.AUTH_PASSWORD = Missing }
ServeRequests ==
    { r \in Requests : /\ r.x_forwarded_for = Missing /\ r.remote_addr = A_
                       /\ r.token_arg = Missing /\ r.authorization = Missing
                       /\ r.basic = Missing }

\* 1066-1368: the first statement of each handler
Entry(r) ==
    IF r = "/health" THEN "health_connect"
    ELSE IF r \in { "/api/stats", "/api/valkey" } THEN "vk_connect"
    ELSE IF r = "/api/postgres" THEN "pg_connect"
    ELSE IF r = "/api/rtsp-reader" THEN "rtsp_get"
    ELSE IF r = "/api/clients" THEN "clients_connect"
    ELSE "obs_params"

ServeInit ==
    /\ route \in Routes
    /\ \E i \in ServeInputs(route) :
          /\ backend = i.backend
          /\ args = i.args
          /\ tables = i.tables
          /\ spaces = i.spaces
    /\ config \in ServeConfigs
    /\ request \in ServeRequests
    /\ checks_run = << >>
    /\ response = NoResponse
    /\ handler_ran = FALSE
    /\ connections_opened = 0
    /\ IF route \in GatedRoutes
       THEN gate_pc = "ip" /\ spc = "idle"
       ELSE gate_pc = "open" /\ spc = Entry(route)
    /\ open_conns = {}
    /\ valkey_stats = << >>
    /\ postgres_stats = << >>
    /\ rtsp_reader_stats = << >>
    /\ page = 0
    /\ limit = 0
    /\ query_limit = << >>
    /\ order_by = << >>
    /\ observations = << >>
    /\ http = << >>

srvIn == << route, backend, args, tables, spaces >>
srvStats == << valkey_stats, postgres_stats, rtsp_reader_stats >>
srvObs == << page, limit, query_limit, order_by, observations >>

ErrorOf(msg) == [kind |-> "error", error |-> msg]
Json(status, kind, body) == [status |-> status, kind |-> kind, body |-> body]

\* 175: the gate calls the wrapped handler
Enter ==
    /\ gate_pc = "handler"
    /\ spc = "idle"
    /\ handler_ran' = TRUE
    /\ gate_pc' = "served"
    /\ spc' = Entry(route)
    /\ UNCHANGED << config, request, checks_run, response, connections_opened >>
    /\ UNCHANGED << srvIn, srvStats, srvObs, open_conns, http >>

\* where control goes when an aggregator returns
AfterValkey == IF route = "/api/stats" THEN "pg_connect" ELSE "valkey_respond"
AfterPostgres == IF route = "/api/stats" THEN "rtsp_get" ELSE "postgres_respond"
AfterRtsp == IF route = "/api/stats" THEN "stats_respond" ELSE "rtsp_respond"

\* ---- get_valkey_stats, 611-762

\* 614-617, and get_valkey_connection, 179-216
ValkeyConnect ==
    /\ spc = "vk_connect"
    /\ IF backend.valkey_up
       THEN /\ open_conns' = open_conns \cup {"valkey"}
            /\ spc' = "vk_info"
            /\ UNCHANGED valkey_stats
       ELSE /\ valkey_stats' = ErrorOf("Cannot connect to Valkey database")
            /\ spc' = AfterValkey
            /\ UNCHANGED open_conns
    /\ UNCHANGED << srvIn, postgres_stats, rtsp_reader_stats, srvObs, http >>

\* 619-711: client.info() and the statistics read from it
ValkeyInfo ==
    /\ spc = "vk_info"
    /\ spc' = IF backend.valkey_fault = "info" THEN "vk_except" ELSE "vk_dbsize"
    /\ UNCHANGED << srvIn, srvStats, srvObs, open_conns, http >>

\* 713-741: client.dbsize(); its fault is swallowed by the bare except at 720
ValkeyDbsize ==
    /\ spc = "vk_dbsize"
    /\ spc' = "vk_scan"
    /\ UNCHANGED << srvIn, srvStats, srvObs, open_conns, http >>

\* 743-752: get_queue_info_with_timeout(client) returns one of its results
ValkeyScan ==
    /\ spc = "vk_scan"
    /\ spc' = "vk_close"
    /\ UNCHANGED << srvIn, srvStats, srvObs, open_conns, http >>

\* 754-756
ValkeyClose ==
    /\ spc = "vk_close"
    /\ open_conns' = open_conns \ {"valkey"}
    /\ valkey_stats' = [kind |-> "data",
                        database_size |-> IF backend.valkey_fault = "dbsize" THEN << 0 >>
                                          ELSE << "dbsize" >>,
                        queues |-> backend.scan]
    /\ spc' = AfterValkey
    /\ UNCHANGED << srvIn, postgres_stats, rtsp_reader_stats, srvObs, http >>

\* 758-762
ValkeyExcept ==
    /\ spc = "vk_except"
    /\ open_conns' = open_conns \ {"valkey"}
    /\ valkey_stats' = ErrorOf("Error retrieving Valkey statistics")
    /\ spc' = AfterValkey
    /\ UNCHANGED << srvIn, postgres_stats, rtsp_reader_stats, srvObs, http >>

\* ---- get_postgres_stats, 764-984

\* a step of the function: it raises into the handler at 980 when it is the
\* faulting one
PgStep(here, step, next) ==
    /\ spc = here
    /\ spc' = IF backend.postgres_fault = step THEN "pg_except" ELSE next
    /\ UNCHANGED << srvIn, srvStats, srvObs, open_conns, http >>

\* 767-770, and get_postgres_connection, 218-242
PgConnect ==
    /\ spc = "pg_connect"
    /\ IF backend.postgres_up
       THEN /\ open_conns' = open_conns \cup {"postgres"}
            /\ spc' = "pg_cursor"
            /\ UNCHANGED postgres_stats
       ELSE /\ postgres_stats' = ErrorOf("Cannot connect to PostgreSQL database")
            /\ spc' = AfterPostgres
            /\ UNCHANGED open_conns
    /\ UNCHANGED << srvIn, valkey_stats, rtsp_reader_stats, srvObs, http >>

\* 773-774
PgCursor == PgStep("pg_cursor", "cursor", "pg_size")
\* 776-786
PgSize == PgStep("pg_size", "size", "pg_tables")
\* 788-843
PgTables == PgStep("pg_tables", "tables", "pg_connections")
\* 845-866
PgConnections == PgStep("pg_connections", "connections", "pg_activity")
\* 868-944
PgActivity == PgStep("pg_activity", "activity", "pg_application")

\* mutant of PgApplication: the inner handler at 969 is absent
PgApplication_Propagates == PgStep("pg_application", "application", "pg_close")

\* 946-974: a fault of the inner try is swallowed at 969
PgApplication ==
    /\ spc = "pg_application"
    /\ spc' = "pg_close"
    /\ UNCHANGED << srvIn, srvStats, srvObs, open_conns, http >>

\* 976-978
PgClose ==
    /\ spc = "pg_close"
    /\ IF backend.postgres_fault = "cursor.close"
       THEN /\ spc' = "pg_except"
            /\ UNCHANGED << open_conns, postgres_stats >>
       ELSE /\ open_conns' = open_conns \ {"postgres"}
            /\ postgres_stats' =
                  [kind |-> "data",
                   tables |-> EnhancedTables(tables),
                   overall_health |-> OverallHealth(EnhancedTables(tables))]
            /\ spc' = AfterPostgres
    /\ UNCHANGED << srvIn, valkey_stats, rtsp_reader_stats, srvObs, http >>

\* mutant of PgExcept: the handler does not close the connection
PgExcept_NoClose ==
    /\ spc = "pg_except"
    /\ postgres_stats' = ErrorOf("Error retrieving PostgreSQL statistics")
    /\ spc' = AfterPostgres
    /\ UNCHANGED << srvIn, valkey_stats, rtsp_reader_stats, srvObs, http, open_conns >>

\* 980-984
PgExcept ==
    /\ spc = "pg_except"
    /\ open_conns' = open_conns \ {"postgres"}
    /\ postgres_stats' = ErrorOf("Error retrieving PostgreSQL statistics")
    /\ spc' = AfterPostgres
    /\ UNCHANGED << srvIn, valkey_stats, rtsp_reader_stats, srvObs, http >>

\* mutant of RtspStats: the RTSP service is not asked when the database failed
RtspStats_NeedsPostgres ==
    /\ spc = "rtsp_get"
    /\ rtsp_reader_stats' =
          IF backend.rtsp = "ok" /\ ~(route = "/api/stats" /\ postgres_stats.kind = "error")
          THEN [kind |-> "data"]
          ELSE ErrorOf("Cannot connect to RTSP Reader service")
    /\ spc' = AfterRtsp
    /\ UNCHANGED << srvIn, valkey_stats, postgres_stats, srvObs, open_conns, http >>

\* ---- get_rtsp_reader_stats, 986-1045
RtspStats ==
    /\ spc = "rtsp_get"
    /\ rtsp_reader_stats' =
          IF backend.rtsp = "ok" THEN [kind |-> "data"]
          ELSE IF backend.rtsp = "RequestException"
          THEN ErrorOf("Cannot connect to RTSP Reader service")
          ELSE ErrorOf("Error retrieving RTSP Reader statistics")
    /\ spc' = AfterRtsp
    /\ UNCHANGED << srvIn, valkey_stats, postgres_stats, srvObs, open_conns, http >>

\* ---- the handlers

Respond(here, answer) ==
    /\ spc = here
    /\ http' = answer
    /\ spc' = "done"
    /\ UNCHANGED << srvIn, srvStats, srvObs, open_conns >>

\* 1079-1085
ApiStats ==
    Respond("stats_respond",
            Json(200, "data", [valkey |-> valkey_stats, postgres |-> postgres_stats,
                               rtsp_reader |-> rtsp_reader_stats]))

\* 1092-1096
ApiValkey == Respond("valkey_respond", Json(200, valkey_stats.kind, valkey_stats))
\* 1105
ApiPostgres == Respond("postgres_respond", Json(200, postgres_stats.kind, postgres_stats))
\* 1111-1115
ApiRtspReader == Respond("rtsp_respond", Json(200, rtsp_reader_stats.kind, rtsp_reader_stats))

\* health_check, 1371-1375: both connections are attempted
HealthConnect ==
    /\ spc = "health_connect"
    /\ open_conns' = open_conns \cup (IF backend.valkey_up THEN {"valkey"} ELSE {})
                                \cup (IF backend.postgres_up THEN {"postgres"} ELSE {})
    /\ spc' = "health_close"
    /\ UNCHANGED << srvIn, srvStats, srvObs, http >>

\* 1377-1380
HealthClose ==
    /\ spc = "health_close"
    /\ open_conns' = {}
    /\ spc' = "health_respond"
    /\ UNCHANGED << srvIn, srvStats, srvObs, http >>

\* mutant of HealthStatus: one reachable backend is enough
HealthStatus_Either(valkey_healthy, postgres_healthy) ==
    IF valkey_healthy \/ postgres_healthy THEN "healthy" ELSE "unhealthy"

\* 1382-1390
HealthStatus(valkey_healthy, postgres_healthy) ==
    IF valkey_healthy /\ postgres_healthy THEN "healthy" ELSE "unhealthy"

HealthRespond ==
    LET valkey_healthy == backend.valkey_up
        postgres_healthy == backend.postgres_up
        status == HealthStatus(valkey_healthy, postgres_healthy)
    IN  Respond("health_respond",
                Json(IF status = "healthy" THEN 200 ELSE 503, "data",
                     [status |-> status,
                      valkey |-> IF valkey_healthy THEN "connected" ELSE "disconnected",
                      postgres |-> IF postgres_healthy THEN "connected" ELSE "disconnected"]))

\* api_clients, 1130-1134
ClientsConnect ==
    /\ spc = "clients_connect"
    /\ IF backend.postgres_up
       THEN /\ open_conns' = open_conns \cup {"postgres"}
            /\ spc' = "clients_query"
            /\ UNCHANGED http
       ELSE /\ http' = Json(503, "error", ErrorOf("Cannot connect to PostgreSQL database"))
            /\ spc' = "done"
            /\ UNCHANGED open_conns
    /\ UNCHANGED << srvIn, srvStats, srvObs >>

\* 1136-1162
ClientsQuery ==
    /\ spc = "clients_query"
    /\ spc' = IF backend.postgres_fault \in ClientsSteps THEN "clients_except"
              ELSE "clients_respond"
    /\ UNCHANGED << srvIn, srvStats, srvObs, open_conns, http >>

\* 1164-1170
ClientsRespond ==
    /\ spc = "clients_respond"
    /\ open_conns' = open_conns \ {"postgres"}
    /\ http' = Json(200, "data", [clients |-> "rows"])
    /\ spc' = "done"
    /\ UNCHANGED << srvIn, srvStats, srvObs >>

\* 1172-1175
ClientsExcept ==
    /\ spc = "clients_except"
    /\ open_conns' = open_conns \ {"postgres"}
    /\ http' = Json(500, "error", ErrorOf("Error retrieving clients"))
    /\ spc' = "done"
    /\ UNCHANGED << srvIn, srvStats, srvObs >>

\* mutant of ObsParams: the limit is not capped
ObsParams_NoCap ==
    /\ spc = "obs_params"
    /\ LET pg == IntArg(args.page, DefaultPage)
           lm == IntArg(args.limit, DefaultLimit)
       IN  IF pg.ok /\ lm.ok
           THEN /\ page' = pg.n
                /\ limit' = lm.n
                /\ spc' = "obs_connect"
                /\ UNCHANGED http
           ELSE /\ http' = Json(500, "raised", [exception |-> "ValueError"])
                /\ spc' = "raised"
                /\ UNCHANGED << page, limit >>
    /\ UNCHANGED << srvIn, srvStats, query_limit, order_by, observations, open_conns >>

\* api_observations, 1184-1199: int(...) raises ValueError outside any try
ObsParams ==
    /\ spc = "obs_params"
    /\ LET pg == IntArg(args.page, DefaultPage)
           lm == IntArg(args.limit, DefaultLimit)
       IN  IF pg.ok /\ lm.ok
           THEN /\ page' = pg.n
                /\ limit' = Min(lm.n, MaxLimit)
                /\ spc' = "obs_connect"
                /\ UNCHANGED http
           ELSE /\ http' = Json(500, "raised", [exception |-> "ValueError"])
                /\ spc' = "raised"
                /\ UNCHANGED << page, limit >>
    /\ UNCHANGED << srvIn, srvStats, query_limit, order_by, observations, open_conns >>

\* 1201-1203
ObsConnect ==
    /\ spc = "obs_connect"
    /\ IF backend.postgres_up
       THEN /\ open_conns' = open_conns \cup {"postgres"}
            /\ spc' = "obs_cursor"
            /\ UNCHANGED http
       ELSE /\ http' = Json(503, "error", ErrorOf("Cannot connect to PostgreSQL database"))
            /\ spc' = "done"
            /\ UNCHANGED open_conns
    /\ UNCHANGED << srvIn, srvStats, srvObs >>

ObsStep(here, step, next) ==
    /\ spc = here
    /\ spc' = IF backend.postgres_fault = step THEN "obs_except" ELSE next
    /\ UNCHANGED << srvIn, srvStats, srvObs, open_conns, http >>

\* 1205-1251
ObsCursor == ObsStep("obs_cursor", "cursor", "obs_count")
\* 1253-1256
ObsCount == ObsStep("obs_count", "count", "obs_data")

\* 1258-1276: the database rejects a negative LIMIT or OFFSET
ObsData ==
    /\ spc = "obs_data"
    /\ LET offset == (page - 1) * limit
       IN  /\ query_limit' = << limit, offset >>
           /\ order_by' = [column |-> sort_by(args), direction |-> Upper(sort_order(args))]
           /\ IF backend.postgres_fault = "data" \/ limit < 0 \/ offset < 0
              THEN /\ spc' = "obs_except"
                   /\ UNCHANGED observations
              ELSE /\ observations' =
                         IF limit > 0 /\ offset < TotalObservations
                         THEN << [image_path |-> spaces.image_path] >>
                         ELSE << >>
                   /\ spc' = "obs_images"
    /\ UNCHANGED << srvIn, srvStats, page, limit, open_conns, http >>

\* 1339-1345
ObsImages ==
    /\ spc = "obs_images"
    /\ observations' =
          [i \in 1..Len(observations) |->
              IF observations[i].image_path # Missing /\ observations[i].image_path # << >>
              THEN [image_path |-> build_image_url(spaces, observations[i].image_path)]
              ELSE observations[i]]
    /\ spc' = "obs_close"
    /\ UNCHANGED << srvIn, srvStats, page, limit, query_limit, order_by, open_conns, http >>

\* 1346-1347
ObsClose ==
    /\ spc = "obs_close"
    /\ open_conns' = open_conns \ {"postgres"}
    /\ spc' = "obs_respond"
    /\ UNCHANGED << srvIn, srvStats, srvObs, http >>

\* 1349-1360: the page count divides by limit
ObsRespond ==
    /\ spc = "obs_respond"
    /\ IF limit = 0
       THEN /\ spc' = "obs_except"
            /\ UNCHANGED http
       ELSE /\ http' = Json(200, "data",
                            [observations |-> observations,
                             pagination |-> [page |-> page, limit |-> limit,
                                             total |-> TotalObservations,
                                             pages |-> (TotalObservations + limit - 1) \div limit],
                             sort |-> [column |-> sort_by(args), order |-> sort_order(args)]])
            /\ spc' = "done"
    /\ UNCHANGED << srvIn, srvStats, srvObs, open_conns >>

\* 1362-1366
ObsExcept ==
    /\ spc = "obs_except"
    /\ open_conns' = open_conns \ {"postgres"}
    /\ http' = Json(500, "error", ErrorOf("Error retrieving observations"))
    /\ spc' = "done"
    /\ UNCHANGED << srvIn, srvStats, srvObs >>

ServeNext ==
    \/ GateIp /\ UNCHANGED besideGate
    \/ GateToken /\ UNCHANGED besideGate
    \/ GateBasic /\ UNCHANGED besideGate
    \/ Enter /\ UNCHANGED besideServe
    \/ ValkeyConnect /\ UNCHANGED << gateVars, besideServe >>
    \/ ValkeyInfo /\ UNCHANGED << gateVars, besideServe >>
    \/ ValkeyDbsize /\ UNCHANGED << gateVars, besideServe >>
    \/ ValkeyScan /\ UNCHANGED << gateVars, besideServe >>
    \/ ValkeyClose /\ UNCHANGED << gateVars, besideServe >>
    \/ ValkeyExcept /\ UNCHANGED << gateVars, besideServe >>
    \/ PgConnect /\ UNCHANGED << gateVars, besideServe >>
    \/ PgCursor /\ UNCHANGED << gateVars, besideServe >>
    \/ PgSize /\ UNCHANGED << gateVars, besideServe >>
    \/ PgTables /\ UNCHANGED << gateVars, besideServe >>
    \/ PgConnections /\ UNCHANGED << gateVars, besideServe >>
    \/ PgActivity /\ UNCHANGED << gateVars, besideServe >>
    \/ PgApplication /\ UNCHANGED << gateVars, besideServe >>
    \/ PgClose /\ UNCHANGED << gateVars, besideServe >>
    \/ PgExcept /\ UNCHANGED << gateVars, besideServe >>
    \/ RtspStats /\ UNCHANGED << gateVars, besideServe >>
    \/ ApiStats /\ UNCHANGED << gateVars, besideServe >>
    \/ ApiValkey /\ UNCHANGED << gateVars, besideServe >>
    \/ ApiPostgres /\ UNCHANGED << gateVars, besideServe >>
    \/ ApiRtspReader /\ UNCHANGED << gateVars, besideServe >>
    \/ HealthConnect /\ UNCHANGED << gateVars, besideServe >>
    \/ HealthClose /\ UNCHANGED << gateVars, besideServe >>
    \/ HealthRespond /\ UNCHANGED << gateVars, besideServe >>
    \/ ClientsConnect /\ UNCHANGED << gateVars, besideServe >>
    \/ ClientsQuery /\ UNCHANGED << gateVars, besideServe >>
    \/ ClientsRespond /\ UNCHANGED << gateVars, besideServe >>
    \/ ClientsExcept /\ UNCHANGED << gateVars, besideServe >>
    \/ ObsParams /\ UNCHANGED << gateVars, besideServe >>
    \/ ObsConnect /\ UNCHANGED << gateVars, besideServe >>
    \/ ObsCursor /\ UNCHANGED << gateVars, besideServe >>
    \/ ObsCount /\ UNCHANGED << gateVars, besideServe >>
    \/ ObsData /\ UNCHANGED << gateVars, besideServe >>
    \/ ObsImages /\ UNCHANGED << gateVars, besideServe >>
    \/ ObsClose /\ UNCHANGED << gateVars, besideServe >>
    \/ ObsRespond /\ UNCHANGED << gateVars, besideServe >>
    \/ ObsExcept /\ UNCHANGED << gateVars, besideServe >>

ServeSpecInit == ServeInit /\ ScanIdle /\ ConcIdle

\* one request to one of the JSON routes, against any behaviour of the backends
ServeSpec == ServeSpecInit /\ [][ServeNext]_vars
-----------------------------------------------------------------------------
(* Properties of the route handlers *)

Answered == spc = "done"
Served(r) == route = r /\ Answered

\* C12: /health is answered without the access gate; it reports healthy with
\* 200 exactly when both connections succeeded and unhealthy with 503
\* otherwise, and reports each backend by its own connection attempt.
C12_Health ==
    Served("/health") =>
        /\ checks_run = << >> /\ ~handler_ran
        /\ (http.status = 200 /\ http.body.status = "healthy")
              <=> (backend.valkey_up /\ backend.postgres_up)
        /\ ~(backend.valkey_up /\ backend.postgres_up)
              => (http.status = 503 /\ http.body.status = "unhealthy")
        /\ http.body.valkey = (IF backend.valkey_up THEN "connected" ELSE "disconnected")
        /\ http.body.postgres = (IF backend.postgres_up THEN "connected" ELSE "disconnected")

C12_Witness ==
    /\ Served("/health")
    /\ ~check_security_token(config, request)
    /\ ~backend.valkey_up /\ backend.postgres_up
    /\ http.status = 503
    /\ http.body.valkey = "disconnected" /\ http.body.postgres = "connected"
ValkeyReturned == valkey_stats # << >>
PostgresReturned == postgres_stats # << >>
Raised == spc = "raised"

\* C13 as stated: neither aggregator raises, and each returns an error dict
\* whenever its connection cannot be opened or any of its commands or queries
\* faults.
C13_ErrorOnAnyFault ==
    /\ route \in { "/api/stats", "/api/valkey", "/api/postgres" } => ~Raised
    /\ ValkeyReturned =>
          ((~backend.valkey_up \/ backend.valkey_fault # "none") => valkey_stats.kind = "error")
    /\ PostgresReturned =>
          ((~backend.postgres_up \/ backend.postgres_fault # "none")
              => postgres_stats.kind = "error")

\* the steps whose fault the aggregators absorb into the statistics
Absorbed == { "none", "dbsize", "application" }

\* C13 amended: neither aggregator raises; each returns an error dict when its
\* connection cannot be opened or a command or query faults, except that a
\* fault of client.dbsize() or of the application-metrics queries is absorbed
\* and statistics are returned.
C13_ErrorUnlessAbsorbed ==
    /\ route \in { "/api/stats", "/api/valkey", "/api/postgres" } => ~Raised
    /\ ValkeyReturned =>
          (valkey_stats.kind = "error"
              <=> (~backend.valkey_up \/ backend.valkey_fault \notin Absorbed))
    /\ PostgresReturned =>
          (postgres_stats.kind = "error"
              <=> (~backend.postgres_up \/ backend.postgres_fault \notin Absorbed))

C13_Witness ==
    /\ Served("/api/stats")
    /\ backend.valkey_up /\ backend.valkey_fault = "info"
    /\ backend.postgres_up /\ backend.postgres_fault = "application"
    /\ valkey_stats.kind = "error"
    /\ postgres_stats.kind = "data"
\* C14: no function returns with a connection it opened still open: once an
\* aggregator has returned its connection is closed, and when the handler has
\* returned or raised no connection is open.
C14_ConnectionsClosed ==
    /\ ValkeyReturned => "valkey" \notin open_conns
    /\ PostgresReturned => "postgres" \notin open_conns
    /\ (Answered \/ Raised) => open_conns = {}

C14_Witness ==
    /\ Served("/api/stats")
    /\ backend.valkey_up /\ backend.scan = "Timeout"
    /\ backend.postgres_up /\ backend.postgres_fault = "tables"
    /\ open_conns = {}
ValkeyWorks == backend.valkey_up /\ backend.valkey_fault \in Absorbed
PostgresWorks == backend.postgres_up /\ backend.postgres_fault \in Absorbed
RtspWorks == backend.rtsp = "ok"
KindWhen(works) == IF works THEN "data" ELSE "error"

\* C15: /api/stats does not raise, and its answer carries the three
\* sub-results, each of them data or an error according to its own backend
\* only.
C15_StatsIndependent ==
    route = "/api/stats" =>
        /\ ~Raised
        /\ Answered =>
              /\ http.status = 200
              /\ DOMAIN http.body = { "valkey", "postgres", "rtsp_reader" }
              /\ http.body.valkey.kind = KindWhen(ValkeyWorks)
              /\ http.body.postgres.kind = KindWhen(PostgresWorks)
              /\ http.body.rtsp_reader.kind = KindWhen(RtspWorks)

C15_Witness ==
    /\ Served("/api/stats")
    /\ ~backend.postgres_up
    /\ http.body.postgres.kind = "error"
    /\ http.body.valkey.kind = "data"
    /\ http.body.rtsp_reader.kind = "data"
\* C16: no JSON route handler lets a fault out: whatever the request, the
\* handler returns a JSON body, data or an error object.
C16_NoFaultEscapes ==
    /\ ~Raised
    /\ Answered => http.kind \in { "data", "error" }
\* the image paths of the fetched rows have been rewritten
ImagesBuilt == spc \in { "obs_close", "obs_respond", "obs_except", "done" } /\ observations # << >>
BuiltUrl == observations[1].image_path

HasCredentials == Truthy(spaces.SPACES_ACCESS_KEY) /\ Truthy(spaces.SPACES_SECRET_KEY)
\* the builder gets as far as the signing step and the signing fails
SigningFails ==
    /\ Truthy(spaces.image_path) /\ IsText(spaces.image_path)
    /\ Truthy(spaces.SPACES_BUCKET)
    /\ HasCredentials
    /\ spaces.boto3 # "ok"
\* a failure outside the signing step
OtherFailure ==
    /\ Truthy(spaces.image_path) /\ Truthy(spaces.SPACES_BUCKET)
    /\ \/ ~IsText(spaces.image_path)
       \/ (~(HasCredentials /\ spaces.boto3 = "ok") /\ spaces.SPACES_PUBLIC_BASE_URL = NonText)

\* C17 as stated: on any failure while producing the URL, a failure to sign
\* included, the original path is returned.
C17_PathOnAnyFailure ==
    (ImagesBuilt /\ (SigningFails \/ OtherFailure)) => BuiltUrl = spaces.image_path

\* the object key of a path: leading slashes and the bucket prefix removed
ObjectKey(path) ==
    LET stripped == LStripSlash(path)
        prefix == spaces.SPACES_BUCKET \o << "/" >>
    IN  IF StartsWith(stripped, prefix) THEN SubSeq(stripped, Len(prefix) + 1, Len(stripped))
        ELSE stripped
PublicUrl(path) ==
    IF Truthy(spaces.SPACES_PUBLIC_BASE_URL)
    THEN RStripSlash(spaces.SPACES_PUBLIC_BASE_URL) \o << "/" >> \o ObjectKey(path)
    ELSE Endpoint_ \o << "/" >> \o spaces.SPACES_BUCKET \o << "/" >> \o ObjectKey(path)

\* C17 amended: the builder does not raise; when signing fails it falls back
\* to the public URL of the object, and on a failure outside the signing step
\* it returns the original path.
C17_FallbackOnSigningFailure ==
    ImagesBuilt =>
        /\ ~Raised
        /\ OtherFailure => BuiltUrl = spaces.image_path
        /\ (SigningFails /\ ~OtherFailure) => BuiltUrl = PublicUrl(spaces.image_path)

C17_Witness ==
    /\ ImagesBuilt
    /\ SigningFails
    /\ spaces.boto3 = "Exception"
    /\ spaces.image_path = << "/", "b", "/", "x", ".jpg" >>
    /\ spaces.SPACES_PUBLIC_BASE_URL = BaseUrl_
    /\ BuiltUrl = << "https://cdn.example", "/", "x", ".jpg" >>
\* the value of a limit parameter that is an integer
LimitSent == IntArg(args.limit, DefaultLimit)
QueryIssued == query_limit # << >>
PaginationReported ==
    Served("/api/observations") /\ http.kind = "data"

\* C18: for every integer limit parameter, the limit of the data query and
\* the limit reported in the pagination is min(limit, 1000), so never above
\* 1000; with no limit parameter it is 50.
C18_LimitClamped ==
    route = "/api/observations" =>
        /\ QueryIssued =>
              /\ LimitSent.ok
              /\ query_limit[1] = (IF LimitSent.n < 1000 THEN LimitSent.n ELSE 1000)
              /\ query_limit[1] <= 1000
              /\ args.limit = Missing => query_limit[1] = 50
        /\ PaginationReported =>
              /\ http.body.pagination.limit = query_limit[1]
              /\ http.body.pagination.limit <= 1000

C18_Witness ==
    /\ PaginationReported
    /\ args.limit = << "5", "0", "0", "0" >>
    /\ http.body.pagination.limit = 1000
\* the status the bloat buckets give a row: Good below 10%, Fair from 10% to
\* 20%, Needs Vacuum above 20%, Empty with no live rows and no operations
BucketOf(row) ==
    LET live == OrZero(row.live_tuples)
        dead == OrZero(row.dead_tuples)
        ops == OrZero(row.inserts) + OrZero(row.updates) + OrZero(row.deletes)
    IN  IF live > 0
        THEN IF dead * 100 < 10 * live THEN {"Good"}
             ELSE IF dead * 100 <= 20 * live THEN {"Fair"}
             ELSE {"Needs Vacuum"}
        ELSE IF ops = 0 THEN {"Empty"} ELSE {"Good", "Fair", "Needs Vacuum", "Empty"}

\* C19: each table's health_status is the bucket of its bloat ratio
\* dead/live*100.
C19_BloatBuckets ==
    (PostgresReturned /\ postgres_stats.kind = "data") =>
        \A i \in 1..Len(tables) :
            postgres_stats.tables[i].health_status \in BucketOf(tables[i])
-----------------------------------------------------------------------------
(* Two requests whose queue scans run in the same process,                  *)
(* src/app.py:249-255, 467, 572-609.  signal.signal and signal.alarm act on *)
(* the process: there is one SIGALRM timer, and its handler runs in the     *)
(* main thread, in whatever code is executing there.                        *)

Scanners == { "A", "B" }

\* store commands a scan issues before its key loop ends
MaxCommands == 2

NoAlarm == [armed |-> FALSE, by |-> ""]

ConcInit ==
    /\ scans = [r \in Scanners |->
                  [pc |-> "start", cmds |-> 0, fired |-> FALSE, hit_by |-> "", result |-> ""]]
    /\ scans_in_main \in BOOLEAN
    /\ proc_alarm = NoAlarm

\* 252-255: signal.signal raises ValueError outside the main thread; in it,
\* signal.alarm replaces whatever alarm was pending
ConcStart(r) ==
    /\ scans[r].pc = "start"
    /\ IF scans_in_main
       THEN /\ proc_alarm' = [armed |-> TRUE, by |-> r]
            /\ scans' = [scans EXCEPT ![r].pc = "scanning"]
       ELSE /\ scans' = [scans EXCEPT ![r].pc = "except", ![r].result = "Error"]
            /\ UNCHANGED proc_alarm
    /\ UNCHANGED scans_in_main

\* 293-464: a store command of the sampling, pattern or key loops
ConcCommand(r) ==
    /\ scans[r].pc = "scanning"
    /\ scans[r].cmds < MaxCommands
    /\ scans' = [scans EXCEPT ![r].cmds = @ + 1]
    /\ UNCHANGED << scans_in_main, proc_alarm >>

\* 467: signal.alarm(0) cancels the process's pending alarm
ConcCancel(r) ==
    /\ scans[r].pc = "scanning"
    /\ proc_alarm' = [proc_alarm EXCEPT !.armed = FALSE]
    /\ scans' = [scans EXCEPT ![r].pc = "post"]
    /\ UNCHANGED scans_in_main

\* 470-570: the log line at 524 raises, the handler at 588 takes over
ConcPost(r) ==
    /\ scans[r].pc = "post"
    /\ scans' = [scans EXCEPT ![r].pc = "except", ![r].result = "Error"]
    /\ UNCHANGED << scans_in_main, proc_alarm >>

\* 572-603: the Timeout or Error result is built
ConcExcept(r) ==
    /\ scans[r].pc = "except"
    /\ scans' = [scans EXCEPT ![r].pc = "finally"]
    /\ UNCHANGED << scans_in_main, proc_alarm >>

\* 604-609: signal.alarm(0) again, then return
ConcFinally(r) ==
    /\ scans[r].pc = "finally"
    /\ proc_alarm' = [proc_alarm EXCEPT !.armed = FALSE]
    /\ scans' = [scans EXCEPT ![r].pc = "done"]
    /\ UNCHANGED scans_in_main

\* 249-250: the pending alarm goes off and timeout_handler raises TimeoutError
\* in the scan that is executing in the main thread: inside the loops it is
\* swallowed (305, 322, 424, 432, 462) or not, after them it reaches 572,
\* inside a handler or the finally clause it leaves the function
ConcFire(r) ==
    /\ proc_alarm.armed
    /\ scans_in_main
    /\ scans[r].pc \in { "scanning", "post", "except", "finally" }
    /\ proc_alarm' = [proc_alarm EXCEPT !.armed = FALSE]
    /\ \E swallowed \in BOOLEAN :
          scans' = [scans EXCEPT
                      ![r].fired = TRUE,
                      ![r].hit_by = proc_alarm.by,
                      ![r].result = IF scans[r].pc \in { "scanning", "post" } /\ ~swallowed
                                    THEN "Timeout" ELSE @,
                      ![r].pc = IF scans[r].pc = "scanning"
                                THEN (IF swallowed THEN "scanning" ELSE "except")
                                ELSE IF scans[r].pc = "post" THEN "except"
                                ELSE "raised"]
    /\ UNCHANGED scans_in_main

ConcNext ==
    \/ \E r \in Scanners : ConcStart(r) /\ UNCHANGED besideConc
    \/ \E r \in Scanners : ConcCommand(r) /\ UNCHANGED besideConc
    \/ \E r \in Scanners : ConcCancel(r) /\ UNCHANGED besideConc
    \/ \E r \in Scanners : ConcPost(r) /\ UNCHANGED besideConc
    \/ \E r \in Scanners : ConcExcept(r) /\ UNCHANGED besideConc
    \/ \E r \in Scanners : ConcFinally(r) /\ UNCHANGED besideConc
    \/ \E r \in Scanners : ConcFire(r) /\ UNCHANGED besideConc

ConcSpecInit == ConcInit /\ ScanIdle /\ GateIdle /\ ServeIdle

\* two scans of one process, interleaved in any way
ConcSpec == ConcSpecInit /\ [][ConcNext]_vars

\* the scan has armed its deadline, which has neither gone off nor been
\* cancelled by the scan itself
DeadlinePending(r) == scans_in_main /\ scans[r].pc = "scanning" /\ ~scans[r].fired

\* C20: a scan's deadline is its own: while it is pending the process alarm
\* is armed, and armed by that scan; an alarm that goes off in a scan was
\* armed by that scan; and no scan raises to its caller.
C20_DeadlineIsolated ==
    \A r \in Scanners :
        /\ DeadlinePending(r) => (proc_alarm.armed /\ proc_alarm.by = r)
        /\ scans[r].fired => scans[r].hit_by = r
        /\ scans[r].pc # "raised"

\* the same, as long as the other scan has not started
C20_IsolatedWhenAlone ==
    \A r \in Scanners :
        (\A o \in Scanners \ {r} : scans[o].pc = "start") =>
            /\ DeadlinePending(r) => (proc_alarm.armed /\ proc_alarm.by = r)
            /\ scans[r].fired => scans[r].hit_by = r
            /\ scans[r].pc # "raised"
-----------------------------------------------------------------------------
(* Counting of streams, src/app.py:368-459 and 472-493 *)

\* the lag XINFO GROUPS reports for a group, as a number: nothing when the
\* field is absent or null
LagOf(g) == IF "lag" \in DOMAIN g /\ g.lag # None THEN g.lag[1] ELSE 0

\* pending entries plus lag over the consumer groups the store holds for
\* stream k, or XLEN when it holds none
GroupBacklog(st, k) ==
    LET gs == StoreGroups(st, k)
    IN  IF gs # << >>
        THEN SumSeq([i \in 1..Len(gs) |-> Len(gs[i].pel)])
             + SumSeq([i \in 1..Len(gs) |-> LagOf(gs[i])])
        ELSE StoreLen(st, k)

\* no command has faulted and the alarm has not been delivered
Undisturbed == faults = 0 /\ ~alarm_fired

\* C21: the effective count of an inspected stream, as added to
\* total_messages (453) and as recorded in its entry's length (456), is the
\* pending entries plus the lag over its consumer groups when it has groups,
\* and XLEN when it has none (stated for scans in which no command faults
\* and no alarm is delivered).
C21_EffectiveCount ==
    Undisturbed =>
        /\ pc = "stream_add_total" => effective_count = GroupBacklog(store, key)
        /\ \A i \in StreamEntries(queue_details) :
              queue_details[i].length = GroupBacklog(store, queue_details[i].name)

\* a step in which the handler at 432-437 takes over for a fault (not the
\* alarm): XINFO GROUPS raises at 383, or the addition at 428 raises.  From
\* line 386 the only way to 442 without an exception is the end of the loop.
Handled432 ==
    /\ pc \in InGroups \ {"for_group"}
    /\ pc' = "effective"
    /\ alarm_fired' = alarm_fired

\* C22: when listing or processing the consumer groups of a stream faults,
\* the effective count that 442-447 computes for the stream is its total
\* length (XLEN).
C22_FaultCountsTotalLength ==
    [][Handled432 =>
         EffectiveCount(stream_info', pending_count', total_stream_length')
             = total_stream_length']_vars

\* the pending counts recorded for the streams of queue_details, summed
RECURSIVE PendingCounts(_)
PendingCounts(qd) ==
    IF qd = << >> THEN 0
    ELSE (IF Head(qd).type = "stream" THEN Head(qd).stream_info.pending_count ELSE 0)
         + PendingCounts(Tail(qd))

\* C23: total_pel_messages is the sum of stream_info.pending_count over the
\* stream entries of queue_details, whatever the outcome of the XPENDING
\* queries and of the group listing.
C23_PelIsSumOfPending ==
    PelComputed => total_pel_messages = PendingCounts(queue_details)

\* the same, for scans in which nothing faults inside the group handling
C23_PelIsSumWhenAllSucceed ==
    (PelComputed /\ Undisturbed
        /\ \A k \in KeyNames : \A i \in 1..Len(StoreGroups(store, k)) :
              "lag" \in DOMAIN StoreGroups(store, k)[i]
                 => StoreGroups(store, k)[i].lag # None)
    => total_pel_messages = PendingCounts(queue_details)
-----------------------------------------------------------------------------
(* Candidate keys, src/app.py:309-331 *)

\* no element occurs twice in the sequence
NoRepeat(s) == \A i, j \in 1..Len(s) : s[i] = s[j] => i = j

\* the key of the current iteration is being inspected: its TYPE or length
\* commands, or the statements that count and record it
Inspecting == pc \in InKey \cup InGroups \cup InPel

\* C24: a key is a candidate once, however many patterns it matches and
\* however often SCAN returns it: the keys still to inspect hold no key
\* twice, nor the key being inspected, nor a key already recorded;
\* queue_details holds no key twice; and when a count is added to
\* total_messages (340/351/362/453) its key has no entry yet.
C24_SingleCandidate ==
    /\ NoRepeat(key_list)
    /\ key \notin Range(key_list)
    /\ Names(queue_details) \cap Range(key_list) = {}
    /\ NoRepeat([i \in 1..Len(queue_details) |-> queue_details[i].name])
    /\ Inspecting => key \notin Names(queue_details)
    /\ pc \in {"add_total", "stream_add_total"} => key \notin Names(queue_details)

\* job:queue matches both `*:queue` and `job:*`, and queue:jobs was returned
\* by every iteration of a SCAN that did not complete; both are recorded
C24_Witness ==
    /\ pc = "sort"
    /\ store.stuck = 1
    /\ Names(queue_details) = {K_jobs, K_jq}
    /\ Len(queue_details) = 2
-----------------------------------------------------------------------------
(* The cap on inspected keys, src/app.py:331 *)

\* the keys recorded, the key under inspection and the keys still to
\* inspect are together at most 50
CapHolds ==
    /\ Len(key_list) <= InspectLimit
    /\ Len(queue_details) + (IF Inspecting THEN 1 ELSE 0) + Len(key_list) <= InspectLimit

\* a TYPE inspection is begun only by taking one key off the capped list,
\* which is assigned at 331 and never grows afterwards
CapStep ==
    /\ pc' = "type" => (key_list # << >> /\ key' = Head(key_list) /\ key_list' = Tail(key_list))
    /\ pc # "line326" => Len(key_list') <= Len(key_list)

\* C25: one scan begins a TYPE/length inspection for at most 50 candidate
\* keys, however many matched, and queue_details never has more than 50
\* entries.
C25_AtMostFiftyInspected == [](CapHolds /\ Len(queue_details) <= InspectLimit) /\ [][CapStep]_vars

\* more than 50 keys matched, the key loop has ended undisturbed and every
\* non-empty list among the first 50 is recorded
C25_Witness ==
    /\ pc = "cancel_alarm"
    /\ Cardinality(all_queue_keys) > InspectLimit
    /\ Undisturbed
    /\ Len(queue_details) > TopN
-----------------------------------------------------------------------------
(* Ordering of the result, src/app.py:470 and 563 *)

\* where the entry of a key stands in a list of entries
PositionOf(details, name) == CHOOSE i \in 1..Len(details) : details[i].name = name

\* `after` holds the entries of `before`, by non-increasing length, entries
\* of equal length in the order they have in `before`
SortedStably(before, after) ==
    /\ Len(after) = Len(before)
    /\ Range(after) = Range(before)
    /\ \A i \in 1..(Len(after) - 1) : after[i].length >= after[i + 1].length
    /\ \A i, j \in 1..Len(before) :
          (i < j /\ before[i].length = before[j].length) =>
              PositionOf(after, before[i].name) < PositionOf(after, before[j].name)

\* the statement at 470 orders queue_details by length, descending and stably
SortStep == pc = "sort" => SortedStably(queue_details, queue_details')

\* the value returned by a scan that nothing disturbed lists the first 10
\* entries of queue_details
TopTenReturned ==
    (Returned /\ in_main_thread /\ Undisturbed) =>
        result.queue_details = Take(queue_details, TopN)

\* C26: the sort at 470 leaves queue_details in non-increasing order of
\* length with ties in encounter order, and the list returned is the first
\* 10 entries of that order (all of them when there are fewer).
C26_SortedTopTen == [][SortStep]_vars /\ []TopTenReturned

\* the ordering part alone
C26_SortedStably == [][SortStep]_vars
-----------------------------------------------------------------------------
(* Which keys are recorded, src/app.py:336-367 and 451-461 *)

\* the effective count 371-447 arrive at for stream k when every command
\* succeeds and no alarm is delivered
UndisturbedEffective(st, k) ==
    LET gs == StoreGroups(st, k)
    IN  IF gs = << >> THEN StoreLen(st, k)
        ELSE IF \E i \in 1..Len(gs) : "lag" \in DOMAIN gs[i] /\ gs[i].lag = None
             THEN 2 * StoreLen(st, k)
             ELSE GroupBacklog(st, k)

\* the inclusion rule: a list, set or sorted set with length above 0, a
\* stream with total length above 0 or effective count above 0
ShouldInclude(st, k) ==
    LET t == StoreType(st, k)
    IN  \/ t \in {"list", "zset", "set"} /\ StoreLen(st, k) > 0
        \/ t = "stream" /\ (StoreLen(st, k) > 0 \/ UndisturbedEffective(st, k) > 0)

\* the key loop has ended and every candidate was inspected
AllInspected == pc = "cancel_alarm" /\ Cardinality(all_queue_keys) <= InspectLimit

\* C27: of the keys inspected (with every command succeeding), exactly
\* those the inclusion rule names have an entry in queue_details, and only
\* lists, sets, sorted sets and streams ever add to total_messages.
C27_Inclusion ==
    /\ pc \in {"add_total", "stream_add_total"} => key_type \in {"list", "zset", "set", "stream"}
    /\ (AllInspected /\ faults = 0) =>
          \A k \in all_queue_keys : (k \in Names(queue_details)) <=> ShouldInclude(store, k)

\* the same, for scans during which the alarm was not delivered either
C27_InclusionUndisturbed ==
    /\ pc \in {"add_total", "stream_add_total"} => key_type \in {"list", "zset", "set", "stream"}
    /\ (AllInspected /\ Undisturbed) =>
          \A k \in all_queue_keys : (k \in Names(queue_details)) <=> ShouldInclude(store, k)
-----------------------------------------------------------------------------
(* Faults of store commands inside the loops, src/app.py:310-324, 331-464 *)

\* a store command raises in this step
FaultStep == faults' = faults + 1

\* C28: a store command that faults while a pattern is enumerated or a key
\* is inspected does not abort the scan: control stays inside the loops
\* (next pattern at 310, next key at 331, or further statements of the same
\* key), the patterns and keys still to do are the same, and the keys
\* gathered, queue_details and total_messages are left as they were.
C28_FaultSkipsOne ==
    [][(FaultStep /\ pc \in InPattern \cup InKey \cup InGroups \cup InPel) =>
          /\ pc \in InPattern => pc' = "for_pattern"
          /\ pc \in InKey => pc' = "for_key"
          /\ pc \in InGroups \cup InPel => pc' \in {"add_unread", "effective"}
          /\ pattern_idx' = pattern_idx
          /\ key_list' = key_list
          /\ all_queue_keys' = all_queue_keys
          /\ queue_details' = queue_details
          /\ total_messages' = total_messages]_vars

\* the key loop has ended after one command faulted and no alarm came: a
\* key that the inclusion rule names was skipped, another one is recorded
C28_Witness ==
    /\ pc = "cancel_alarm"
    /\ faults = 1
    /\ ~alarm_fired
    /\ queue_details # << >>
    /\ \E k \in all_queue_keys : ShouldInclude(store, k) /\ k \notin Names(queue_details)
-----------------------------------------------------------------------------
(* The alarm at exit, src/app.py:255, 467, 604-609 *)

\* C29: when the function has returned (success, Timeout or Error), or
\* left in any other way, no alarm of the scan is armed any more.
C29_AlarmCancelledAtExit == Finished => ~alarm_armed

\* the scan armed its alarm, the alarm went off in the outer try and the
\* Timeout result has been returned
C29_Witness ==
    /\ Returned
    /\ in_main_thread
    /\ result = TimeoutResult
    /\ ~alarm_armed
-----------------------------------------------------------------------------
(* ORDER BY of /api/observations, src/app.py:1186-1199 and 1263-1275 *)

SqlDirections == { Upper(Asc_), Upper(Desc_) }

\* C30: whatever the sort and order parameters, the column interpolated
\* into ORDER BY is one of the twelve allowed columns (created_at when the
\* parameter is not one of them) and the direction is ASC or DESC (DESC
\* when the parameter, lower-cased, is neither asc nor desc); the same
\* validated values are reported back.
C30_OrderByAllowListed ==
    (route = "/api/observations" /\ QueryIssued) =>
        /\ Len(allowed_sort_columns) = 12
        /\ order_by.column \in Range(allowed_sort_columns)
        /\ order_by.column = (IF args.sort \in Range(allowed_sort_columns)
                              THEN args.sort ELSE CreatedAt_)
        /\ order_by.direction \in SqlDirections
        /\ order_by.direction =
              (IF args.order # Missing /\ Lower(args.order) = Asc_
               THEN << "A", "S", "C" >> ELSE << "D", "E", "S", "C" >>)
        /\ PaginationReported =>
              /\ http.body.sort.column = order_by.column
              /\ Upper(http.body.sort.order) = order_by.direction

\* a request whose sort parameter carries SQL text and whose order is
\* upper-case ASC: the query is ordered by created_at ASC
C30_Witness ==
    /\ PaginationReported
    /\ args.sort \notin Range(allowed_sort_columns) \cup { Missing, << >> }
    /\ Len(args.sort) > Len(Id_) + 1
    /\ args.order = << "A", "S", "C" >>
    /\ order_by = [column |-> CreatedAt_, direction |-> << "A", "S", "C" >>]

====
